---- MODULE Spec2Model ----
(***************************************************************************)
(* A model of the CUGL networked physics library: the session state        *)
(* machine of NetEventController, the event queues, the ownership ledger   *)
(* and body registry of NetPhysicsController / ObstacleWorld, and the      *)
(* peer-to-peer transport they talk to.                                    *)
(*                                                                         *)
(* Every peer runs one NetEventController (ctl[p]) and one                 *)
(* NetPhysicsController with its ObstacleWorld (phys[p]).  The transport   *)
(* (NetcodeConnection) is a collaborator: netState, players and channel   *)
(* model it.                                                               *)
(***************************************************************************)
EXTENDS Integers, Sequences, FiniteSets, TLC

(***************************************************************************)
(* Bounds of the model.                                                    *)
(***************************************************************************)
\* number of clients besides the host; peers are 0..NumClients, 0 hosts
NumClients == 2
\* capacity of channels and event queues in Spec
MaxChan == 1
\* capacity of channels and event queues in the specifications of
\* several peers
MaxLoad == 2
\* the application's update counter is at most this
MaxTick == 2
\* bodies the peers create through addSharedObstacle, all in all
MaxBodies == 1
\* longest lease an application asks for
MaxDuration == 2
\* largest count of CLIENT_RDY events a host of Spec is followed to
MaxReady == 3
\* ids the worlds of IdSpec issue through addSharedObstacle, all in all
MaxIssued == 2
\* angles the applications give to a body: 0..MaxAngle
MaxAngle == 1
\* game tick up to which the applications of EventSpec count
MaxGameTick == 1
\* datagrams on a link of OutSpec: two events of the application and one of
\* the engine
MaxOut == 3
\* the property groups of one body that wait for publication at a time
MaxDirty == 2
\* the property groups that the application of a peer has set
MaxSet == 2
\* the ids that the worlds hand out
MaxSeq == 3

(***************************************************************************)
(* Program constants.                                                      *)
(***************************************************************************)
\* one byte of the wire format holds values below this
ByteRange == 256
\* upper clamp of the interpolation step count
MaxSteps == 30
\* the originator half of a world-init id, 0xffffffff: the 32-bit word of all
\* ones, written as a 32-bit integer
InitUID == -1

Peers == 0..NumClients
HostPeer == CHOOSE p \in Peers : \A q \in Peers : p <= q
Clients == Peers \ {HostPeer}

StatusValues == {"IDLE", "CONNECTING", "CONNECTED", "HANDSHAKE", "READY",
                 "INGAME", "NETERROR"}
ErrorStates == {"DENIED", "DISCONNECTED", "FAILED", "INVALID", "MISMATCHED"}
NetStates == {"NEGOTIATING", "CONNECTED", "INSESSION"} \cup ErrorStates

VARIABLES
    ctl,            \* ctl[p]: the fields of peer p's NetEventController
    phys,           \* phys[p]: peer p's NetPhysicsController and ObstacleWorld
    updateCount,    \* updateCount[p]: Application::getUpdateCount() on peer p
    netState,       \* netState[p]: NetcodeConnection::getState() on peer p
    players,        \* NetcodeConnection::getPlayers(): the peers of the lobby
    sessionStarted, \* the host has called startSession on the transport
    channel         \* channel[<<s, d>>]: datagrams sent by s, not yet received by d

vars == <<ctl, phys, updateCount, netState, players, sessionStarted,
          channel>>

(***************************************************************************)
(* Small helpers.                                                          *)
(***************************************************************************)
RECURSIVE SeqOfSet(_)
SeqsOfSet(S) == {s \in [1..Cardinality(S) -> S] :
                    \A i, j \in 1..Cardinality(S) : i # j => s[i] # s[j]}
SeqOfSet(S) == IF S = {} THEN <<>>
               ELSE LET x == CHOOSE y \in S : \A z \in S : y <= z
                    IN <<x>> \o SeqOfSet(S \ {x})

\* std::unordered_map::insert: an existing key keeps its value
MapInsert(m, k, v) == IF k \in DOMAIN m THEN m ELSE m @@ (k :> v)
\* std::unordered_map::erase
MapErase(m, k) == [x \in DOMAIN m \ {k} |-> m[x]]
\* std::unordered_map::operator[] assignment
MapPut(m, k, v) == [x \in DOMAIN m \cup {k} |-> IF x = k THEN v ELSE m[x]]
EmptyMap == [x \in {} |-> 0]
\* the element of a set of one element
The(S) == CHOOSE x \in S : TRUE

(***************************************************************************)
(* Events.  GameStateEvent carries a type and, for UID_ASSIGN, a short     *)
(* UID; it is serialized to bytes.                                         *)
(***************************************************************************)
UID_ASSIGN == 100
CLIENT_RDY == 101
GAME_START == 102

allocGameStart == [class |-> "GameStateEvent", type |-> GAME_START, shortUID |-> 0]
allocReady == [class |-> "GameStateEvent", type |-> CLIENT_RDY, shortUID |-> 0]
allocUIDAssign(uid) == [class |-> "GameStateEvent", type |-> UID_ASSIGN, shortUID |-> uid]

\* GameStateEvent::serialize: one byte of type, one byte of short UID
GameStateSerialize(e) ==
    IF e.type = UID_ASSIGN THEN <<UID_ASSIGN, e.shortUID % ByteRange>>
    ELSE <<e.type>>

\* GameStateEvent::deserialize
GameStateDeserialize(data) ==
    IF data[1] = UID_ASSIGN
    THEN [class |-> "GameStateEvent", type |-> UID_ASSIGN, shortUID |-> data[2] % ByteRange]
    ELSE [class |-> "GameStateEvent", type |-> data[1], shortUID |-> 0]

\* GameStateEvent::getShortUID returns Uint8
getShortUID(e) == e.shortUID % ByteRange

(***************************************************************************)
(* PhysObjEvent and PhysSyncEvent.  A body id is the pair <<originator     *)
(* short UID, per-world sequence number>>, the two halves of the 64-bit    *)
(* id.                                                                     *)
(***************************************************************************)
allocCreation(factId, objId, bytes) ==
    [class |-> "PhysObjEvent", type |-> "OBJ_CREATION", objId |-> objId,
     obstacleFactId |-> factId, packedParam |-> <<bytes>>, duration |-> 0, value |-> 0]
allocDeletion(objId) ==
    [class |-> "PhysObjEvent", type |-> "OBJ_DELETION", objId |-> objId,
     obstacleFactId |-> 0, packedParam |-> <<>>, duration |-> 0, value |-> 0]
allocPos(objId, pos) ==
    [class |-> "PhysObjEvent", type |-> "OBJ_POSITION", objId |-> objId,
     obstacleFactId |-> 0, packedParam |-> <<>>, duration |-> 0, value |-> pos]
allocVel(objId, vel) ==
    [class |-> "PhysObjEvent", type |-> "OBJ_VELOCITY", objId |-> objId,
     obstacleFactId |-> 0, packedParam |-> <<>>, duration |-> 0, value |-> vel]
allocAngle(objId, angle) ==
    [class |-> "PhysObjEvent", type |-> "OBJ_ANGLE", objId |-> objId,
     obstacleFactId |-> 0, packedParam |-> <<>>, duration |-> 0, value |-> angle]
allocAngularVel(objId, angV) ==
    [class |-> "PhysObjEvent", type |-> "OBJ_ANGULAR_VEL", objId |-> objId,
     obstacleFactId |-> 0, packedParam |-> <<>>, duration |-> 0, value |-> angV]
\* the six boolean constants and the nine float constants of a body, in the
\* order of the event's fields
BoolConsts(en, aw, sl, fr, bu, se) ==
    [isEnabled |-> en, isAwake |-> aw, isSleepingAllowed |-> sl,
     isFixedRotation |-> fr, isBullet |-> bu, isSensor |-> se]
FloatConsts(de, fr, re, ld, ad, gs, ma, ine, ce) ==
    [density |-> de, friction |-> fr, restitution |-> re, linearDamping |-> ld,
     angularDamping |-> ad, gravityScale |-> gs, mass |-> ma, inertia |-> ine,
     centroid |-> ce]
allocBodyType(objId, bodyType) ==
    [class |-> "PhysObjEvent", type |-> "OBJ_BODY_TYPE", objId |-> objId,
     obstacleFactId |-> 0, packedParam |-> <<>>, duration |-> 0, value |-> bodyType]
allocBoolConsts(objId, bools) ==
    [class |-> "PhysObjEvent", type |-> "OBJ_BOOL_CONSTS", objId |-> objId,
     obstacleFactId |-> 0, packedParam |-> <<>>, duration |-> 0, value |-> bools]
allocFloatConsts(objId, floats) ==
    [class |-> "PhysObjEvent", type |-> "OBJ_FLOAT_CONSTS", objId |-> objId,
     obstacleFactId |-> 0, packedParam |-> <<>>, duration |-> 0, value |-> floats]
allocOwnerAcquire(objId, duration) ==
    [class |-> "PhysObjEvent", type |-> "OBJ_OWNER_ACQUIRE", objId |-> objId,
     obstacleFactId |-> 0, packedParam |-> <<>>, duration |-> duration, value |-> 0]
allocOwnerRelease(objId) ==
    [class |-> "PhysObjEvent", type |-> "OBJ_OWNER_RELEASE", objId |-> objId,
     obstacleFactId |-> 0, packedParam |-> <<>>, duration |-> 0, value |-> 0]

\* PhysSyncEvent::alloc and PhysSyncEvent::addObj: a second add of an id is ignored
allocPhysSync == [class |-> "PhysSyncEvent", syncList |-> <<>>]
addObj(ev, body, id) ==
    IF \E i \in 1..Len(ev.syncList) : ev.syncList[i].objId = id THEN ev
    ELSE [ev EXCEPT !.syncList = Append(@, [objId |-> id, x |-> body.x,
              vx |-> body.vx, angle |-> body.angle, vAngular |-> body.angV])]

(***************************************************************************)
(* Obstacle: the pose of a body (one coordinate stands for the vector),    *)
(* its shared flag and the dirty bits its setters raise while it is        *)
(* shared.                                                                 *)
(***************************************************************************)
\* ObstacleFactory::createObstacle: the parameter bytes decide the pose
createObstacle(bytes) ==
    [shared |-> FALSE, x |-> bytes, vx |-> 0, angle |-> 0, angV |-> 0, dirty |-> {},
     bodyType |-> 0,
     bools |-> BoolConsts(FALSE, FALSE, FALSE, FALSE, FALSE, FALSE),
     floats |-> FloatConsts(0, 0, 0, 0, 0, 0, 0, 0, 0)]

setShared(b, v) == [b EXCEPT !.shared = v]
setPosition(b, v) ==
    [b EXCEPT !.x = v, !.dirty = IF b.shared THEN @ \cup {"pos"} ELSE @]
setLinearVelocity(b, v) ==
    [b EXCEPT !.vx = v, !.dirty = IF b.shared THEN @ \cup {"vel"} ELSE @]
setAngle(b, v) ==
    [b EXCEPT !.angle = v, !.dirty = IF b.shared THEN @ \cup {"angle"} ELSE @]
setAngularVelocity(b, v) ==
    [b EXCEPT !.angV = v, !.dirty = IF b.shared THEN @ \cup {"angV"} ELSE @]
setBodyType(b, v) ==
    [b EXCEPT !.bodyType = v, !.dirty = IF b.shared THEN @ \cup {"type"} ELSE @]
\* the setters of the boolean constants that the OBJ_BOOL_CONSTS case calls
setBoolConsts(b, v) ==
    [b EXCEPT !.bools = v,
              !.dirty = IF b.shared /\ v # b.bools THEN @ \cup {"bool"} ELSE @]
\* the setters that the OBJ_FLOAT_CONSTS case calls: density, friction,
\* restitution, linear damping, gravity scale, mass, inertia and centroid
setFloatConsts(b, v) ==
    [b EXCEPT !.floats = [v EXCEPT !.angularDamping = b.floats.angularDamping],
              !.dirty = IF b.shared
                           /\ [v EXCEPT !.angularDamping = b.floats.angularDamping] # b.floats
                        THEN @ \cup {"float"} ELSE @]
clearSharingDirtyBits(b) == [b EXCEPT !.dirty = {}]

(***************************************************************************)
(* ObstacleWorld and NetPhysicsController of one peer, as one record.      *)
(* Handles stand for the shared_ptr<Obstacle> values of that peer.         *)
(***************************************************************************)
NewPhysicsController ==
    [isHost |-> FALSE, outEvents |-> <<>>, cache |-> EmptyMap,
     obstacleFacts |-> 0,
     objects |-> <<>>, idToObj |-> EmptyMap, objToId |-> EmptyMap,
     owned |-> EmptyMap, nextObj |-> 0, shortUID |-> 0,
     body |-> EmptyMap, nextHandle |-> 0, objRotation |-> 0]

\* NetPhysicsController::init: the world takes the short UID, the role is stored
physInit(ph, shortUID, isHost) ==
    [ph EXCEPT !.shortUID = shortUID, !.isHost = isHost]

\* NetPhysicsController::attachFactory
attachFactory(ph) == [ph EXCEPT !.obstacleFacts = @ + 1]

\* ObstacleWorld::addObstacle(obj, id)
addObstacleWithId(ph, h, id) ==
    [ph EXCEPT !.objects = Append(@, h),
               !.idToObj = MapInsert(@, id, h),
               !.objToId = MapInsert(@, h, id)]

\* ObstacleWorld::addObstacle(obj): the id is (shortUID << 32) | nextObj++
NextObjId(ph) == <<ph.shortUID, ph.nextObj>>

\* ObstacleWorld::addObstacle(obj) that does not advance the sequence number
addObstacleSameId(ph, h) == addObstacleWithId(ph, h, NextObjId(ph))
addObstacle(ph, h) ==
    addObstacleWithId([ph EXCEPT !.nextObj = @ + 1], h, NextObjId(ph))

\* ObstacleWorld::addInitObstacle: the id is (0xffffffff << 32) | nextObj++
addInitObstacle(ph, h) ==
    addObstacleWithId([ph EXCEPT !.nextObj = @ + 1], h, <<InitUID, ph.nextObj>>)

\* ObstacleWorld::removeObstacle: the body leaves the object list only
removeObstacle(ph, h) ==
    [ph EXCEPT !.objects = SelectSeq(@, LAMBDA o : o # h)]

(***************************************************************************)
(* NetPhysicsController: ownership ledger and body registry.               *)
(***************************************************************************)
pushPhysOut(ph, e) == [ph EXCEPT !.outEvents = Append(@, e)]

\* addSharedObstacle that records no ownership on the host
addSharedObstacleNoOwner(ph, factoryID, bytes) ==
    LET h  == ph.nextHandle
        b  == setShared(createObstacle(bytes), TRUE)
        p1 == [ph EXCEPT !.nextHandle = @ + 1, !.body = MapPut(@, h, b)]
    IN pushPhysOut(addObstacle(p1, h), allocCreation(factoryID, NextObjId(p1), bytes))

\* NetPhysicsController::addSharedObstacle
addSharedObstacle(ph, factoryID, bytes) ==
    LET h  == ph.nextHandle
        b  == setShared(createObstacle(bytes), TRUE)
        p1 == [ph EXCEPT !.nextHandle = @ + 1, !.body = MapPut(@, h, b)]
        id == NextObjId(p1)
        p2 == addObstacle(p1, h)
        p3 == IF p2.isHost THEN [p2 EXCEPT !.owned = MapInsert(@, h, 0)] ELSE p2
    IN pushPhysOut(p3, allocCreation(factoryID, id, bytes))

\* NetPhysicsController::acquireObs
acquireObs(ph, obs, duration) ==
    LET p1 == IF ph.isHost THEN [ph EXCEPT !.owned = MapInsert(@, obs, 0)] ELSE ph
        p2 == [p1 EXCEPT !.owned = MapInsert(@, obs, duration)]
    IN pushPhysOut(p2, allocOwnerAcquire(p2.objToId[obs], duration))

\* NetPhysicsController::releaseObs
releaseObs(ph, obs) ==
    IF ~ph.isHost
    THEN pushPhysOut([ph EXCEPT !.owned = MapErase(@, obs)],
                     allocOwnerRelease(ph.objToId[obs]))
    ELSE ph

\* NetPhysicsController::ownAll
RECURSIVE ownAllFrom(_, _)
ownAllFrom(ph, i) ==
    IF i > Len(ph.objects) THEN ph
    ELSE ownAllFrom([ph EXCEPT !.owned = MapInsert(@, ph.objects[i], 0)], i + 1)
ownAll(ph) == ownAllFrom(ph, 1)

\* NetPhysicsController::removeSharedObstacle
removeSharedObstacle(ph, obj) ==
    IF obj \in DOMAIN ph.objToId
    THEN removeObstacle(pushPhysOut(ph, allocDeletion(ph.objToId[obj])), obj)
    ELSE ph

\* processPhysObjEvent that writes the delta while the body counts as shared
processPhysObjEventShared(ph, e, source) ==
    IF source = "" THEN ph
    ELSE IF e.type = "OBJ_CREATION" THEN
        LET h  == ph.nextHandle
            p1 == [ph EXCEPT !.nextHandle = @ + 1,
                             !.body = MapPut(@, h, createObstacle(e.packedParam[1]))]
            p2 == addObstacleWithId(p1, h, e.objId)
        IN IF p2.isHost THEN [p2 EXCEPT !.owned = MapInsert(@, h, 0)] ELSE p2
    ELSE IF e.objId \notin DOMAIN ph.idToObj THEN ph
    ELSE LET obj == ph.idToObj[e.objId] IN
        IF e.type = "OBJ_DELETION"
        THEN removeObstacle([ph EXCEPT !.cache = MapErase(@, obj)], obj)
        ELSE
        LET b0 == ph.body[obj]
            b1 == CASE e.type = "OBJ_POSITION"    -> setPosition(b0, e.value)
                    [] e.type = "OBJ_VELOCITY"    -> setLinearVelocity(b0, e.value)
                    [] e.type = "OBJ_ANGLE"       -> setAngle(b0, e.value)
                    [] e.type = "OBJ_ANGULAR_VEL" -> setAngularVelocity(b0, e.value)
                    [] e.type = "OBJ_BODY_TYPE"   -> setBodyType(b0, e.value)
                    [] e.type = "OBJ_BOOL_CONSTS" -> setBoolConsts(b0, e.value)
                    [] e.type = "OBJ_FLOAT_CONSTS" -> setFloatConsts(b0, e.value)
                    [] OTHER -> b0
            ow == CASE e.type = "OBJ_OWNER_ACQUIRE" -> MapErase(ph.owned, obj)
                    [] e.type = "OBJ_OWNER_RELEASE" /\ ph.isHost -> MapInsert(ph.owned, obj, 0)
                    [] OTHER -> ph.owned
        IN [ph EXCEPT !.owned = ow, !.body = MapPut(@, obj, setShared(b1, TRUE))]

\* NetPhysicsController::processPhysObjEvent; source is the event's source id,
\* the empty string for an event of this peer itself
processPhysObjEvent(ph, e, source) ==
    IF source = "" THEN ph
    ELSE IF e.type = "OBJ_CREATION" THEN
        LET h  == ph.nextHandle
            p1 == [ph EXCEPT !.nextHandle = @ + 1,
                             !.body = MapPut(@, h, createObstacle(e.packedParam[1]))]
            p2 == addObstacleWithId(p1, h, e.objId)
        IN IF p2.isHost THEN [p2 EXCEPT !.owned = MapInsert(@, h, 0)] ELSE p2
    ELSE IF e.objId \notin DOMAIN ph.idToObj THEN ph
    ELSE LET obj == ph.idToObj[e.objId] IN
        IF e.type = "OBJ_DELETION"
        THEN removeObstacle([ph EXCEPT !.cache = MapErase(@, obj)], obj)
        ELSE
        LET b0 == setShared(ph.body[obj], FALSE)
            b1 == CASE e.type = "OBJ_POSITION"    -> setPosition(b0, e.value)
                    [] e.type = "OBJ_VELOCITY"    -> setLinearVelocity(b0, e.value)
                    [] e.type = "OBJ_ANGLE"       -> setAngle(b0, e.value)
                    [] e.type = "OBJ_ANGULAR_VEL" -> setAngularVelocity(b0, e.value)
                    [] e.type = "OBJ_BODY_TYPE"   -> setBodyType(b0, e.value)
                    [] e.type = "OBJ_BOOL_CONSTS" -> setBoolConsts(b0, e.value)
                    [] e.type = "OBJ_FLOAT_CONSTS" -> setFloatConsts(b0, e.value)
                    [] OTHER -> b0
            ow == CASE e.type = "OBJ_OWNER_ACQUIRE" -> MapErase(ph.owned, obj)
                    [] e.type = "OBJ_OWNER_RELEASE" /\ ph.isHost -> MapInsert(ph.owned, obj, 0)
                    [] OTHER -> ph.owned
        IN [ph EXCEPT !.owned = ow, !.body = MapPut(@, obj, setShared(b1, TRUE))]

(***************************************************************************)
(* NetPhysicsController: snapshots, reconciliation and the fixed update.   *)
(***************************************************************************)
Abs(n) == IF n < 0 THEN -n ELSE n
Max2(a, b) == IF a > b THEN a ELSE b
Min2(a, b) == IF a < b THEN a ELSE b

\* NetPhysicsController::interpolate: (target-source)/stepsLeft + source
interpolate(stepsLeft, target, source) ==
    LET d == target - source
    IN (IF d >= 0 THEN d \div stepsLeft ELSE -((-d) \div stepsLeft)) + source

\* NetPhysicsController::addSyncObject
addSyncObject(ph, obj, param) ==
    LET had == obj \in DOMAIN ph.cache
        old == ph.cache[obj]
        b   == IF had
               THEN setShared(setAngularVelocity(setLinearVelocity(
                        setShared(ph.body[obj], FALSE), old.targetVel),
                        old.targetAngV), TRUE)
               ELSE ph.body[obj]
        par == IF had THEN [param EXCEPT !.I = old.I, !.numI = old.numI] ELSE param
    IN [ph EXCEPT !.body = MapPut(@, obj, b), !.cache = MapPut(@, obj, par)]

\* syncTarget without the lower clamp of the step count
syncTargetNoFloor(b, param) ==
    LET diff    == Abs(b.x - param.x)
        angDiff == 10 * Abs(b.angle - param.angle)
        steps   == Min2(MaxSteps, Max2(diff * 30, angDiff))
    IN [targetVel |-> param.vx, targetAngle |-> param.angle,
        targetAngV |-> param.vAngular, curStep |-> 0, numSteps |-> steps,
        P0 |-> b.x, P3 |-> param.x, I |-> 0, numI |-> 0]

\* the loop body of NetPhysicsController::processPhysSyncEvent
syncTarget(b, param) ==
    LET diff    == Abs(b.x - param.x)
        angDiff == 10 * Abs(b.angle - param.angle)
        steps   == Max2(1, Min2(MaxSteps, Max2(diff * 30, angDiff)))
    IN [targetVel |-> param.vx, targetAngle |-> param.angle,
        targetAngV |-> param.vAngular, curStep |-> 0, numSteps |-> steps,
        P0 |-> b.x, P3 |-> param.x, I |-> 0, numI |-> 0]

\* NetPhysicsController::processPhysSyncEvent
RECURSIVE processSyncList(_, _, _)
processSyncList(ph, list, i) ==
    IF i > Len(list) THEN ph
    ELSE IF list[i].objId \notin DOMAIN ph.idToObj
         THEN processSyncList(ph, list, i + 1)
         ELSE LET obj == ph.idToObj[list[i].objId]
              IN processSyncList(
                     addSyncObject(ph, obj, syncTarget(ph.body[obj], list[i])),
                     list, i + 1)
processPhysSyncEvent(ph, e, source) ==
    IF source = "" THEN ph ELSE processSyncList(ph, e.syncList, 1)

\* NetPhysicsController::packPhysSync; the registry is walked in one fixed order
RECURSIVE packIds(_, _, _, _)
packIds(ph, ids, ev, needOwned) ==
    IF ids = {} THEN ev
    ELSE LET id  == CHOOSE x \in ids : TRUE
             obj == ph.idToObj[id]
             in  == ph.body[obj].shared /\ (needOwned => obj \in DOMAIN ph.owned)
         IN packIds(ph, ids \ {id},
                    IF in THEN addObj(ev, ph.body[obj], id) ELSE ev, needOwned)
packPhysSyncAll(ph, type) ==
    pushPhysOut(ph, packIds(ph, DOMAIN ph.idToObj, allocPhysSync, FALSE))

packPhysSync(ph, type) ==
    pushPhysOut(ph, packIds(ph, DOMAIN ph.idToObj, allocPhysSync, type = "FULL_SYNC"))

\* packPhysSync(PRIO_SYNC): the bodies of highest linear speed come first
PrioCount == 60
WindowCount == 20
RECURSIVE packFastest(_, _, _, _)
packFastest(ph, ids, ev, k) ==
    IF ids = {} \/ k = 0 THEN ev
    ELSE LET id == CHOOSE x \in ids : \A y \in ids :
                       Abs(ph.body[ph.idToObj[x]].vx) >= Abs(ph.body[ph.idToObj[y]].vx)
             obj == ph.idToObj[id]
         IN packFastest(ph, ids \ {id},
                        IF ph.body[obj].shared THEN addObj(ev, ph.body[obj], id) ELSE ev,
                        k - 1)

\* the rolling window of packPhysSync(PRIO_SYNC): n bodies of the object
\* list from _objRotation on; the read of an index past the end of the list
\* yields the handle junk
RECURSIVE packWindow(_, _, _, _)
packWindow(ph, ev, n, junk) ==
    IF n = 0 THEN [ph |-> ph, ev |-> ev]
    ELSE LET obj == IF ph.objRotation < Len(ph.objects)
                    THEN ph.objects[ph.objRotation + 1] ELSE junk
         IN packWindow([ph EXCEPT !.objRotation = (@ + 1) % Len(ph.objects)],
                       addObj(ev, ph.body[obj], ph.objToId[obj]), n - 1, junk)

packPhysSyncPrio(ph, junk) ==
    LET velQueue == {id \in DOMAIN ph.idToObj : ph.body[ph.idToObj[id]].shared}
        prio     == packFastest(ph, velQueue, allocPhysSync,
                                Min2(PrioCount, Cardinality(velQueue)))
        w        == packWindow(ph, prio, Min2(WindowCount, Cardinality(velQueue)), junk)
    IN pushPhysOut(w.ph, w.ev)

\* dirtyEvents that leaves out the float constants
dirtyEventsNoFloats(b, id) ==
    (IF "pos" \in b.dirty THEN <<allocPos(id, b.x)>> ELSE <<>>) \o
    (IF "angle" \in b.dirty THEN <<allocAngle(id, b.angle)>> ELSE <<>>) \o
    (IF "vel" \in b.dirty THEN <<allocVel(id, b.vx)>> ELSE <<>>) \o
    (IF "angV" \in b.dirty THEN <<allocAngularVel(id, b.angV)>> ELSE <<>>) \o
    (IF "type" \in b.dirty THEN <<allocBodyType(id, b.bodyType)>> ELSE <<>>) \o
    (IF "bool" \in b.dirty THEN <<allocBoolConsts(id, b.bools)>> ELSE <<>>)

\* NetPhysicsController::packPhysObj
dirtyEvents(b, id) ==
    (IF "pos" \in b.dirty THEN <<allocPos(id, b.x)>> ELSE <<>>) \o
    (IF "angle" \in b.dirty THEN <<allocAngle(id, b.angle)>> ELSE <<>>) \o
    (IF "vel" \in b.dirty THEN <<allocVel(id, b.vx)>> ELSE <<>>) \o
    (IF "angV" \in b.dirty THEN <<allocAngularVel(id, b.angV)>> ELSE <<>>) \o
    (IF "type" \in b.dirty THEN <<allocBodyType(id, b.bodyType)>> ELSE <<>>) \o
    (IF "bool" \in b.dirty THEN <<allocBoolConsts(id, b.bools)>> ELSE <<>>) \o
    (IF "float" \in b.dirty THEN <<allocFloatConsts(id, b.floats)>> ELSE <<>>)
RECURSIVE packPhysObjFrom(_, _)
packPhysObjFrom(ph, i) ==
    IF i > Len(ph.objects) THEN ph
    ELSE LET obj == ph.objects[i]
             b   == ph.body[obj]
         IN IF b.shared
            THEN packPhysObjFrom(
                   [ph EXCEPT !.outEvents = @ \o dirtyEvents(b, ph.objToId[obj]),
                              !.body = MapPut(@, obj, clearSharingDirtyBits(b))],
                   i + 1)
            ELSE packPhysObjFrom(ph, i + 1)
packPhysObj(ph) == packPhysObjFrom(ph, 1)

\* the ownership transfer loop of NetPhysicsController::fixedUpdate
RECURSIVE stepLeases(_, _)
stepLeases(ph, i) ==
    IF i > Len(ph.objects) THEN ph
    ELSE LET obj == ph.objects[i] IN
         IF obj \in DOMAIN ph.owned
         THEN LET left == ph.owned[obj] IN
              IF left = 1 THEN stepLeases(releaseObs(ph, obj), i + 1)
              ELSE IF left > 1
                   THEN stepLeases([ph EXCEPT !.owned = MapPut(@, obj, left - 1)], i + 1)
                   ELSE stepLeases(ph, i + 1)
         ELSE stepLeases(ph, i + 1)

\* one cache entry in the interpolation loop of NetPhysicsController::fixedUpdate
stepBody(b, param) ==
    LET stepsLeft == param.numSteps - param.curStep
        b0 == setShared(b, FALSE)
        b1 == IF stepsLeft <= 1
              THEN setAngularVelocity(setAngle(setLinearVelocity(
                       setPosition(b0, param.P3), param.targetVel),
                       param.targetAngle), param.targetAngV)
              ELSE setAngularVelocity(setAngle(setLinearVelocity(
                       setPosition(b0, interpolate(stepsLeft, param.P3, b0.x)),
                       interpolate(stepsLeft, param.targetVel, b0.vx)),
                       interpolate(stepsLeft, param.targetAngle, b0.angle)),
                       interpolate(stepsLeft, param.targetAngV, b0.angV))
    IN setShared(b1, TRUE)

\* the interpolation loop of NetPhysicsController::fixedUpdate
stepCacheEarly(ph) ==
    LET live == {o \in DOMAIN ph.cache : ph.body[o].shared}
        keep == {o \in live : ph.cache[o].numSteps - ph.cache[o].curStep > 2}
    IN [ph EXCEPT
          !.body = [o \in DOMAIN ph.body |->
                      IF o \in live THEN stepBody(ph.body[o], ph.cache[o])
                      ELSE ph.body[o]],
          !.cache = [o \in keep |-> [ph.cache[o] EXCEPT !.curStep = @ + 1]]]

stepCache(ph) ==
    LET live == {o \in DOMAIN ph.cache : ph.body[o].shared}
        keep == {o \in live : ph.cache[o].numSteps - ph.cache[o].curStep > 1}
    IN [ph EXCEPT
          !.body = [o \in DOMAIN ph.body |->
                      IF o \in live THEN stepBody(ph.body[o], ph.cache[o])
                      ELSE ph.body[o]],
          !.cache = [o \in keep |-> [ph.cache[o] EXCEPT !.curStep = @ + 1]]]

\* NetPhysicsController::fixedUpdate
fixedUpdate(ph) == stepCache(stepLeases(packPhysObj(ph), 1))

(***************************************************************************)
(* NetEventController.                                                     *)
(***************************************************************************)
NewController ==
    [status |-> "IDLE", isHost |-> FALSE, startGameTimeStamp |-> 0,
     shortUID |-> 0, numReady |-> 0, network |-> FALSE,
     physController |-> FALSE, physEnabled |-> FALSE,
     newEventVector |-> <<>>, inEventQueue |-> <<>>, outEventQueue |-> <<>>]

\* NetEventController::attachEventType
attachEventType(c, T) ==
    IF \E i \in 1..Len(c.newEventVector) : c.newEventVector[i] = T THEN c
    ELSE [c EXCEPT !.newEventVector = Append(@, T)]

\* NetEventController::init
init(c) ==
    [attachEventType(c, "GameStateEvent") EXCEPT
        !.status = "IDLE", !.physController = TRUE]

\* NetEventController::getType: the tag of an event's class
getType(c, e) ==
    (CHOOSE i \in 1..Len(c.newEventVector) : c.newEventVector[i] = e.class) - 1

(***************************************************************************)
(* LWSerializer and LWDeserializer.  A 32-bit word is four bytes in        *)
(* network order; a value is written in two's complement, a float stands   *)
(* for its bits.  The 64-bit values of the model are below 2^32 (ticks,    *)
(* counts, durations: the high word is 0) or ids, pairs of words.          *)
(***************************************************************************)
\* the four bytes of a word
Bytes32(v) ==
    <<(v \div 16777216) % ByteRange, (v \div 65536) % ByteRange,
      (v \div 256) % ByteRange, v % ByteRange>>
\* LWSerializer::writeUint32, writeFloat, writeBool, writeUint64
writeUint32(v) == Bytes32(v)
writeFloat(v) == Bytes32(v)
writeBool(b) == <<IF b THEN 1 ELSE 0>>
writeUint64(hi, lo) == Bytes32(hi) \o Bytes32(lo)

\* the byte at offset pos (from 0) of a buffer; junk is what the memory
\* behind the buffer holds
At(data, pos, junk) == IF pos < Len(data) THEN data[pos + 1] ELSE junk
\* the word that starts at offset pos
Word(data, pos, junk) ==
    LET b0 == At(data, pos, junk)
    IN (IF b0 >= 128 THEN b0 - ByteRange ELSE b0) * 16777216
       + At(data, pos + 1, junk) * 65536 + At(data, pos + 2, junk) * 256
       + At(data, pos + 3, junk)
\* LWDeserializer::readUint32 and readFloat with the position at pos:
\* 0 at the end of the data, else the four bytes from pos on
readUint32(data, pos, junk) == IF pos >= Len(data) THEN 0 ELSE Word(data, pos, junk)
readFloat(data, pos, junk) == IF pos >= Len(data) THEN 0 ELSE Word(data, pos, junk)
\* LWDeserializer::readBool
readBool(data, pos) == IF pos >= Len(data) THEN FALSE ELSE data[pos + 1] = 1
\* LWDeserializer::readUint64: the high and the low word
readUint64(data, pos, junk) ==
    IF pos >= Len(data) THEN <<0, 0>>
    ELSE <<Word(data, pos, junk), Word(data, pos + 4, junk)>>

\* the bytes of a buffer from offset pos on
From(data, pos) == SubSeq(data, pos + 1, Len(data))

\* PhysObjEvent::Type in the order of the enumeration
PhysObjTypes ==
    <<"OBJ_CREATION", "OBJ_DELETION", "OBJ_BODY_TYPE", "OBJ_POSITION",
      "OBJ_VELOCITY", "OBJ_ANGLE", "OBJ_ANGULAR_VEL", "OBJ_BOOL_CONSTS",
      "OBJ_FLOAT_CONSTS", "OBJ_OWNER_ACQUIRE", "OBJ_OWNER_RELEASE">>
TypeNo(type) == (CHOOSE i \in 1..Len(PhysObjTypes) : PhysObjTypes[i] = type) - 1

\* PhysObjEvent::serialize; a vector is written as its two coordinates
PhysObjSerialize(e) ==
    writeUint32(TypeNo(e.type)) \o writeUint64(e.objId[1], e.objId[2]) \o
    CASE e.type = "OBJ_CREATION" -> writeUint32(e.obstacleFactId) \o e.packedParam
      [] e.type = "OBJ_BODY_TYPE" -> writeUint32(e.value)
      [] e.type \in {"OBJ_POSITION", "OBJ_VELOCITY"} ->
            writeFloat(e.value) \o writeFloat(e.value)
      [] e.type \in {"OBJ_ANGLE", "OBJ_ANGULAR_VEL"} -> writeFloat(e.value)
      [] e.type = "OBJ_BOOL_CONSTS" ->
            writeBool(e.value.isEnabled) \o writeBool(e.value.isAwake) \o
            writeBool(e.value.isSleepingAllowed) \o writeBool(e.value.isFixedRotation) \o
            writeBool(e.value.isBullet) \o writeBool(e.value.isSensor)
      [] e.type = "OBJ_FLOAT_CONSTS" ->
            writeFloat(e.value.density) \o writeFloat(e.value.friction) \o
            writeFloat(e.value.restitution) \o writeFloat(e.value.linearDamping) \o
            writeFloat(e.value.angularDamping) \o writeFloat(e.value.gravityScale) \o
            writeFloat(e.value.mass) \o writeFloat(e.value.inertia) \o
            writeFloat(e.value.centroid) \o writeFloat(e.value.centroid)
      [] e.type = "OBJ_OWNER_ACQUIRE" -> writeUint64(0, e.duration)
      [] OTHER -> <<>>

\* the event that newEvent of PhysObjEvent makes
NewPhysObjEvent ==
    [class |-> "PhysObjEvent", type |-> "OBJ_CREATION", objId |-> <<0, 0>>,
     obstacleFactId |-> 0, packedParam |-> <<>>, duration |-> 0, value |-> 0]

\* PhysObjEvent::deserialize; a type outside the enumeration sets no field
PhysObjDeserialize(data, junk) ==
    IF Len(data) < 12 THEN NewPhysObjEvent
    ELSE
    LET no   == readUint32(data, 0, junk)
        type == IF no \in 0..(Len(PhysObjTypes) - 1) THEN PhysObjTypes[no + 1]
                ELSE "INVALID"
        e    == [NewPhysObjEvent EXCEPT !.type = type,
                                        !.objId = readUint64(data, 4, junk)]
    IN CASE type = "OBJ_CREATION" ->
              [e EXCEPT !.obstacleFactId = readUint32(data, 12, junk),
                        !.packedParam = From(data, 16)]
         [] type = "OBJ_BODY_TYPE" -> [e EXCEPT !.value = readUint32(data, 12, junk)]
         [] type \in {"OBJ_POSITION", "OBJ_VELOCITY", "OBJ_ANGLE", "OBJ_ANGULAR_VEL"} ->
              [e EXCEPT !.value = readFloat(data, 12, junk)]
         [] type = "OBJ_BOOL_CONSTS" ->
              [e EXCEPT !.value =
                  BoolConsts(readBool(data, 12), readBool(data, 13), readBool(data, 14),
                             readBool(data, 15), readBool(data, 16), readBool(data, 17))]
         [] type = "OBJ_FLOAT_CONSTS" ->
              [e EXCEPT !.value =
                  FloatConsts(readFloat(data, 12, junk), readFloat(data, 16, junk),
                              readFloat(data, 20, junk), readFloat(data, 24, junk),
                              readFloat(data, 28, junk), readFloat(data, 32, junk),
                              readFloat(data, 36, junk), readFloat(data, 40, junk),
                              readFloat(data, 44, junk))]
         [] type = "OBJ_OWNER_ACQUIRE" ->
              [e EXCEPT !.duration = readUint64(data, 12, junk)[2]]
         [] OTHER -> e

\* PhysSyncEvent::serialize: the count, then id and six floats per record
RECURSIVE PhysSyncRecords(_, _)
PhysSyncRecords(list, i) ==
    IF i > Len(list) THEN <<>>
    ELSE writeUint64(list[i].objId[1], list[i].objId[2]) \o
         writeFloat(list[i].x) \o writeFloat(list[i].x) \o
         writeFloat(list[i].vx) \o writeFloat(list[i].vx) \o
         writeFloat(list[i].angle) \o writeFloat(list[i].vAngular) \o
         PhysSyncRecords(list, i + 1)
PhysSyncSerialize(e) == writeUint64(0, Len(e.syncList)) \o PhysSyncRecords(e.syncList, 1)

\* PhysSyncEvent::deserialize: as many records as the count says
PhysSyncDeserialize(data, junk) ==
    IF Len(data) < 4 THEN [class |-> "PhysSyncEvent", syncList |-> <<>>]
    ELSE [class |-> "PhysSyncEvent",
          syncList |->
            [i \in 1..readUint64(data, 0, junk)[2] |->
               LET pos == 8 + 32 * (i - 1)
               IN [objId |-> readUint64(data, pos, junk),
                   x |-> readFloat(data, pos + 8, junk),
                   vx |-> readFloat(data, pos + 16, junk),
                   angle |-> readFloat(data, pos + 24, junk),
                   vAngular |-> readFloat(data, pos + 28, junk)]]]

\* NetEvent::serialize; an event of the application writes its value as one
\* byte
serialize(e) ==
    CASE e.class = "GameStateEvent" -> GameStateSerialize(e)
      [] e.class = "PhysObjEvent" -> PhysObjSerialize(e)
      [] e.class = "PhysSyncEvent" -> PhysSyncSerialize(e)
      [] OTHER -> <<e.value % ByteRange>>

\* NetEvent::deserialize into a new event of the class
deserializeFrom(class, payload, junk) ==
    CASE class = "GameStateEvent" ->
            GameStateDeserialize(<<At(payload, 0, junk), At(payload, 1, junk)>>)
      [] class = "PhysObjEvent" -> PhysObjDeserialize(payload, junk)
      [] class = "PhysSyncEvent" -> PhysSyncDeserialize(payload, junk)
      [] OTHER -> [class |-> class, value |-> At(payload, 0, junk)]
\* a payload that serialize has made is not read behind its end
deserialize(class, payload) == deserializeFrom(class, payload, 0)

\* MIN_MSG_LENGTH: one byte of tag and eight of time stamp
MIN_MSG_LENGTH == 9

\* wrap that writes the update count of the sender as the time stamp
wrapUpdateCount(c, tick, e) ==
    <<getType(c, e)>> \o writeUint64(0, tick) \o serialize(e)

\* NetEventController::wrap; tick is the application's update count
wrap(c, tick, e) ==
    <<getType(c, e)>> \o writeUint64(0, tick - c.startGameTimeStamp) \o serialize(e)

\* the tag, the time stamp and the payload of a datagram
TagOf(data) == data[1]
StampOf(data) == readUint64(data, 1, 0)[2]
PayloadOf(data) == From(data, MIN_MSG_LENGTH)

\* NetEventController::unwrap of a datagram with a registered tag
unwrapFrom(c, tick, data, source, junk) ==
    [ev |-> deserializeFrom(c.newEventVector[TagOf(data) + 1], PayloadOf(data), junk),
     eventTimeStamp |-> readUint64(data, 1, junk)[2],
     receiveTimeStamp |-> tick - c.startGameTimeStamp,
     sourceId |-> source]
unwrap(c, tick, data, source) == unwrapFrom(c, tick, data, source, 0)

\* NetEventController::pushOutEvent
\* an event of a class the application has attached
allocApp(v) == [class |-> "AppEvent", value |-> v]

\* NetEventController::getGameTick
getGameTick(c, tick) == tick - c.startGameTimeStamp

\* isInAvailable that holds an event back for one tick more
isInAvailableLate(c, tick) ==
    IF c.inEventQueue = <<>> THEN FALSE
    ELSE Head(c.inEventQueue).eventTimeStamp < tick - c.startGameTimeStamp
\* NetEventController::isInAvailable
isInAvailable(c, tick) ==
    IF c.inEventQueue = <<>> THEN FALSE
    ELSE Head(c.inEventQueue).eventTimeStamp <= tick - c.startGameTimeStamp

\* NetEventController::popInEvent, called with an event in the queue
popInEvent(c) ==
    [c |-> [c EXCEPT !.inEventQueue = Tail(@)], ret |-> Head(c.inEventQueue)]

pushOutEvent(c, e) == [c EXCEPT !.outEventQueue = Append(@, e)]

\* markReady without the test of the short UID
markReadyMutant(c) ==
    IF c.status = "HANDSHAKE"
    THEN [c |-> pushOutEvent([c EXCEPT !.status = "READY"], allocReady), ret |-> TRUE]
    ELSE [c |-> c, ret |-> FALSE]
\* markReady that queues no CLIENT_RDY event
markReadyNoEvent(c) ==
    IF c.status = "HANDSHAKE" /\ c.shortUID # 0
    THEN [c |-> [c EXCEPT !.status = "READY"], ret |-> TRUE]
    ELSE [c |-> c, ret |-> FALSE]

\* NetEventController::markReady, as the pair of the new state and the result
markReady(c) ==
    IF c.status = "HANDSHAKE" /\ c.shortUID # 0
    THEN [c |-> pushOutEvent([c EXCEPT !.status = "READY"], allocReady), ret |-> TRUE]
    ELSE [c |-> c, ret |-> FALSE]

\* NetEventController::disconnect
disconnect(c) ==
    [c EXCEPT !.network = FALSE, !.shortUID = 0, !.status = "IDLE",
              !.physEnabled = FALSE, !.isHost = FALSE,
              !.startGameTimeStamp = 0, !.numReady = 0,
              !.outEventQueue = <<>>, !.inEventQueue = <<>>,
              !.physController = FALSE]

\* what a call of disconnect leaves behind: without a connection _network is
\* null and _network->close() is undefined; the call may abort the program
\* or go on as if there were a connection
disconnectCalled(c) ==
    IF c.network THEN {disconnect(c)}
    ELSE {disconnect(c), [c EXCEPT !.status = "ABORTED"]}

\* checkConnection without the count of ready players in its third branch
checkConnectionNoCount(c, tick, state, plist) ==
    IF state = "CONNECTED" THEN
        [c |-> IF c.status \in {"CONNECTING", "IDLE"}
               THEN [c EXCEPT !.status = "CONNECTED"] ELSE c,
         sends |-> <<>>, ret |-> TRUE]
    ELSE IF c.status = "CONNECTED" /\ state = "INSESSION" THEN
        [c |-> [c EXCEPT !.status = "HANDSHAKE"],
         sends |-> IF c.isHost
                   THEN [i \in 1..Len(plist) |->
                           [dst |-> plist[i],
                            data |-> wrap(c, tick, allocUIDAssign(i))]]
                   ELSE <<>>,
         ret |-> TRUE]
    ELSE IF c.status = "READY" /\ c.isHost THEN
        [c |-> pushOutEvent(c, allocGameStart), sends |-> <<>>, ret |-> TRUE]
    ELSE IF state = "NEGOTIATING" THEN
        [c |-> [c EXCEPT !.status = "CONNECTING"], sends |-> <<>>, ret |-> TRUE]
    ELSE IF state \in {"DENIED", "DISCONNECTED", "FAILED", "INVALID", "MISMATCHED"} THEN
        [c |-> [c EXCEPT !.status = "NETERROR"], sends |-> <<>>, ret |-> FALSE]
    ELSE [c |-> c, sends |-> <<>>, ret |-> TRUE]

\* checkConnection that does not advance the short UID from player to player
checkConnectionSameUID(c, tick, state, plist) ==
    IF state = "CONNECTED" THEN
        [c |-> IF c.status \in {"CONNECTING", "IDLE"}
               THEN [c EXCEPT !.status = "CONNECTED"] ELSE c,
         sends |-> <<>>, ret |-> TRUE]
    ELSE IF c.status = "CONNECTED" /\ state = "INSESSION" THEN
        [c |-> [c EXCEPT !.status = "HANDSHAKE"],
         sends |-> IF c.isHost
                   THEN [i \in 1..Len(plist) |->
                           [dst |-> plist[i],
                            data |-> wrap(c, tick, allocUIDAssign(1))]]
                   ELSE <<>>,
         ret |-> TRUE]
    ELSE IF c.status = "READY" /\ c.numReady = Len(plist) /\ c.isHost THEN
        [c |-> pushOutEvent(c, allocGameStart), sends |-> <<>>, ret |-> TRUE]
    ELSE IF state = "NEGOTIATING" THEN
        [c |-> [c EXCEPT !.status = "CONNECTING"], sends |-> <<>>, ret |-> TRUE]
    ELSE IF state \in {"DENIED", "DISCONNECTED", "FAILED", "INVALID", "MISMATCHED"} THEN
        [c |-> [c EXCEPT !.status = "NETERROR"], sends |-> <<>>, ret |-> FALSE]
    ELSE [c |-> c, sends |-> <<>>, ret |-> TRUE]

\* NetEventController::checkConnection.  state is the transport's state,
\* plist the transport's players in the order the host walks them; the result
\* holds the new controller, the datagrams handed to sendTo and the return
\* value.
checkConnection(c, tick, state, plist) ==
    IF state = "CONNECTED" THEN
        [c |-> IF c.status \in {"CONNECTING", "IDLE"}
               THEN [c EXCEPT !.status = "CONNECTED"] ELSE c,
         sends |-> <<>>, ret |-> TRUE]
    ELSE IF c.status = "CONNECTED" /\ state = "INSESSION" THEN
        [c |-> [c EXCEPT !.status = "HANDSHAKE"],
         sends |-> IF c.isHost
                   THEN [i \in 1..Len(plist) |->
                           [dst |-> plist[i],
                            data |-> wrap(c, tick, allocUIDAssign(i))]]
                   ELSE <<>>,
         ret |-> TRUE]
    ELSE IF c.status = "READY" /\ c.numReady = Len(plist) /\ c.isHost THEN
        [c |-> pushOutEvent(c, allocGameStart), sends |-> <<>>, ret |-> TRUE]
    ELSE IF state = "NEGOTIATING" THEN
        [c |-> [c EXCEPT !.status = "CONNECTING"], sends |-> <<>>, ret |-> TRUE]
    ELSE IF state \in {"DENIED", "DISCONNECTED", "FAILED", "INVALID", "MISMATCHED"} THEN
        [c |-> [c EXCEPT !.status = "NETERROR"], sends |-> <<>>, ret |-> FALSE]
    ELSE [c |-> c, sends |-> <<>>, ret |-> TRUE]

\* processGameStateEvent that stores the short UID in every status
processGameStateEventAnyStatus(c, tick, e) ==
    LET c1 == IF e.type = UID_ASSIGN
              THEN [c EXCEPT !.shortUID = getShortUID(e)] ELSE c
        c2 == IF c1.status = "READY" /\ e.type = GAME_START
              THEN [c1 EXCEPT !.status = "INGAME", !.startGameTimeStamp = tick]
              ELSE c1
    IN IF c2.isHost /\ e.type = CLIENT_RDY
       THEN [c2 EXCEPT !.numReady = (@ + 1) % ByteRange] ELSE c2

\* NetEventController::processGameStateEvent
processGameStateEvent(c, tick, e) ==
    LET c1 == IF c.status = "HANDSHAKE" /\ e.type = UID_ASSIGN
              THEN [c EXCEPT !.shortUID = getShortUID(e)] ELSE c
        c2 == IF c1.status = "READY" /\ e.type = GAME_START
              THEN [c1 EXCEPT !.status = "INGAME", !.startGameTimeStamp = tick]
              ELSE c1
    IN IF c2.isHost /\ e.type = CLIENT_RDY
       THEN [c2 EXCEPT !.numReady = (@ + 1) % ByteRange] ELSE c2

\* NetEventController::processReceivedEvent on the pair of controller and
\* physics controller; m is an unwrapped event with its meta data
processReceivedEvent(cp, tick, m) ==
    IF m.ev.class = "GameStateEvent"
    THEN [cp EXCEPT !.c = processGameStateEvent(cp.c, tick, m.ev)]
    ELSE IF cp.c.status = "INGAME" THEN
        IF m.ev.class = "PhysSyncEvent" THEN
            IF cp.c.physEnabled
            THEN [cp EXCEPT !.ph = processPhysSyncEvent(cp.ph, m.ev, m.sourceId)]
            ELSE cp
        ELSE IF m.ev.class = "PhysObjEvent" THEN
            IF cp.c.physEnabled
            THEN [cp EXCEPT !.ph = processPhysObjEvent(cp.ph, m.ev, m.sourceId)]
            ELSE cp
        ELSE [cp EXCEPT !.c.inEventQueue = Append(@, m)]
    ELSE cp

\* NetEventController::processReceivedData: every datagram received, in order
RECURSIVE processReceivedData(_, _, _, _)
processReceivedData(cp, tick, box, i) ==
    IF i > Len(box) THEN cp
    ELSE The({processReceivedData(next, tick, box, i + 1) :
                next \in {processReceivedEvent(cp, tick,
                            unwrap(cp.c, tick, box[i].data, box[i].src))}})

\* the physics step with the events of the engine put before the queued ones
physicsStepFirst(cp) ==
    IF cp.c.status = "INGAME" /\ cp.c.physEnabled THEN
        LET p1 == IF cp.c.isHost THEN packPhysSync(cp.ph, "FULL_SYNC") ELSE cp.ph
            p2 == fixedUpdate(packPhysObj(p1))
        IN [c |-> [cp.c EXCEPT !.outEventQueue = p2.outEvents \o @],
            ph |-> [p2 EXCEPT !.outEvents = <<>>]]
    ELSE cp

\* the physics step of NetEventController::updateNet
physicsStep(cp) ==
    IF cp.c.status = "INGAME" /\ cp.c.physEnabled THEN
        LET p1 == IF cp.c.isHost THEN packPhysSync(cp.ph, "FULL_SYNC") ELSE cp.ph
            p2 == fixedUpdate(packPhysObj(p1))
        IN [c |-> [cp.c EXCEPT !.outEventQueue = @ \o p2.outEvents],
            ph |-> [p2 EXCEPT !.outEvents = <<>>]]
    ELSE cp

\* NetEventController::enablePhysics
enablePhysics(cp) ==
    [c |-> attachEventType(attachEventType(
               [cp.c EXCEPT !.physEnabled = TRUE], "PhysSyncEvent"), "PhysObjEvent"),
     ph |-> physInit(cp.ph, cp.c.shortUID, cp.c.isHost)]

(***************************************************************************)
(* The transport.  A datagram that peer s sends to peer d waits in         *)
(* channel[<<s, d>>], in the order sent, until d receives it.  A broadcast *)
(* reaches every player, the sender included; a datagram of the receiver   *)
(* itself carries the empty source id.                                     *)
(***************************************************************************)
Links == Peers \X Peers
SourceId(s, d) == IF s = d THEN "" ELSE ToString(s)

\* NetcodeConnection::sendTo for each datagram of sends, then
\* NetcodeConnection::broadcast for each datagram of out; what is sent to a
\* peer that holds no connection is lost
Transmit(ch, p, sends, out) ==
    [sd \in Links |->
        IF sd[1] = p /\ ctl[sd[2]].network
        THEN ch[sd]
             \o The({[i \in 1..Len(to) |-> to[i].data] :
                        to \in {SelectSeq(sends, LAMBDA m : m.dst = sd[2])}})
             \o (IF sd[2] \in players THEN out ELSE <<>>)
        ELSE ch[sd]]

\* the queues a specification follows hold at most cap entries, and the
\* host's count of ready players is at most MaxReady
Within(cap) ==
    /\ \A sd \in Links : Len(channel[sd]) <= cap
    /\ \A p \in Peers : /\ Len(ctl[p].outEventQueue) <= cap
                        /\ Len(ctl[p].inEventQueue) <= cap
                        /\ ctl[p].numReady <= MaxReady

\* the interleavings of the sequences f[s] that keep the order of each;
\* an entry names the sender and carries the source id receive() reports
RECURSIVE Merges(_, _)
Merges(f, d) ==
    IF \A s \in DOMAIN f : f[s] = <<>> THEN {<<>>}
    ELSE UNION {{<<[from |-> s, src |-> SourceId(s, d), data |-> Head(f[s])]>> \o m :
                    m \in Merges([f EXCEPT ![s] = Tail(@)], d)} :
                s \in {t \in DOMAIN f : f[t] # <<>>}}

\* NetcodeConnection::receive on peer d: of what each sender has on the way
\* to d some first part has arrived, in any order across the senders
Arrivals(d) ==
    LET lens    == {Len(channel[<<s, d>>]) : s \in Peers}
        longest == CHOOSE n \in lens : \A m \in lens : m <= n
    IN UNION {Merges([s \in Peers |-> SubSeq(channel[<<s, d>>], 1, k[s])], d) :
                k \in {kk \in [Peers -> 0..longest] :
                         \A s \in Peers : kk[s] <= Len(channel[<<s, d>>])}}

\* the channels once peer d has received box
Received(d, box) ==
    [sd \in Links |->
        IF sd[2] = d
        THEN SubSeq(channel[sd],
                    Len(SelectSeq(box, LAMBDA m : m.from = sd[1])) + 1,
                    Len(channel[sd]))
        ELSE channel[sd]]

\* the transport of peer p changes its state in any way
TransportChanges(p, s) ==
    /\ ctl[p].network
    /\ s # netState[p]
    /\ netState' = [netState EXCEPT ![p] = s]
    /\ UNCHANGED <<ctl, phys, updateCount, players, sessionStarted, channel>>

\* the session the host started reaches peer p
SessionBegins(p) ==
    /\ sessionStarted
    /\ p \in players
    /\ netState[p] = "CONNECTED"
    /\ netState' = [netState EXCEPT ![p] = "INSESSION"]
    /\ UNCHANGED <<ctl, phys, updateCount, players, sessionStarted, channel>>

(***************************************************************************)
(* The operations of NetEventController as actions of peer p.              *)
(***************************************************************************)
\* the orders in which the host may walk getPlayers()
PlayerOrders(c, state) ==
    IF c.isHost /\ c.status = "CONNECTED" /\ state = "INSESSION"
    THEN SeqsOfSet(players) ELSE {SeqOfSet(players)}

\* NetEventController::connectAsHost / connectAsClient; open() may leave the
\* transport in any of the states `opened`
Connect(p, host, opened) ==
    LET c0 == IF ctl[p].status = "NETERROR" THEN disconnect(ctl[p]) ELSE ctl[p]
        c1 == [c0 EXCEPT !.isHost = host]
        new == c1.status = "IDLE"
        c2 == IF new THEN [c1 EXCEPT !.status = "CONNECTING", !.network = TRUE] ELSE c1
    IN /\ ctl[p].network \/ ctl[p].status = "IDLE"
       /\ \E st \in (IF new THEN opened ELSE {netState[p]}) :
          \E plist \in PlayerOrders(c2, st) :
            LET cc == checkConnection(c2, updateCount[p], st, plist)
                ch == Transmit(channel, p, cc.sends, <<>>)
            IN /\ ctl' = [ctl EXCEPT ![p] = cc.c]
               /\ netState' = [netState EXCEPT ![p] = st]
               /\ channel' = IF new
                             THEN [sd \in Links |-> IF sd[2] = p THEN <<>> ELSE ch[sd]]
                             ELSE ch
       /\ UNCHANGED <<phys, updateCount, players, sessionStarted>>

connectAsHost(p, opened) == p = HostPeer /\ Connect(p, TRUE, opened)
connectAsClient(p, opened) == p # HostPeer /\ Connect(p, FALSE, opened)

\* NetEventController::disconnect; closing the connection drops what was on
\* its way to this peer
Disconnect(p) ==
    /\ ctl[p].network
    /\ ctl' = [ctl EXCEPT ![p] = disconnect(@)]
    /\ netState' = [netState EXCEPT ![p] = "NEGOTIATING"]
    /\ channel' = [sd \in Links |-> IF sd[2] = p THEN <<>> ELSE channel[sd]]
    /\ UNCHANGED <<phys, updateCount, players, sessionStarted>>

\* NetEventController::startGame
startGame(p) ==
    /\ ctl[p].isHost
    /\ ctl[p].network
    /\ sessionStarted' = (sessionStarted \/ ctl[p].status = "CONNECTED")
    /\ UNCHANGED <<ctl, phys, updateCount, netState, players, channel>>

\* NetEventController::markReady
MarkReady(p) ==
    /\ ctl' = [ctl EXCEPT ![p] = markReady(@).c]
    /\ UNCHANGED <<phys, updateCount, netState, players, sessionStarted, channel>>

\* NetEventController::sendQueuedOutData: the datagrams of the outbound queue
sendQueuedOutData(c, tick) ==
    [i \in 1..Len(c.outEventQueue) |-> wrap(c, tick, c.outEventQueue[i])]

\* NetEventController::updateNet when receive() hands over box
updateNetWith(p, box) ==
    /\ ctl[p].network
    /\ \E plist \in PlayerOrders(ctl[p], netState[p]) :
       \E cc \in {checkConnection(ctl[p], updateCount[p], netState[p], plist)} :
       \E cp1 \in {physicsStep([c |-> cc.c, ph |-> phys[p]])} :
       \E cp2 \in {processReceivedData(cp1, updateCount[p], box, 1)} :
       \E out \in {sendQueuedOutData(cp2.c, updateCount[p])} :
           /\ ctl' = [ctl EXCEPT ![p] = [cp2.c EXCEPT !.outEventQueue = <<>>]]
           /\ phys' = [phys EXCEPT ![p] = cp2.ph]
           /\ \E ch \in {Received(p, box)} :
                 channel' = Transmit(ch, p, cc.sends, out)
    /\ UNCHANGED <<updateCount, netState, players, sessionStarted>>

\* NetEventController::updateNet
updateNet(p) == \E box \in Arrivals(p) : updateNetWith(p, box)

\* what is on the way to peer d, sender after sender
RECURSIVE AllFrom(_, _)
AllFrom(senders, d) ==
    IF senders = <<>> THEN <<>>
    ELSE [i \in 1..Len(channel[<<Head(senders), d>>]) |->
            [from |-> Head(senders), src |-> SourceId(Head(senders), d),
             data |-> channel[<<Head(senders), d>>][i]]]
         \o AllFrom(Tail(senders), d)

\* NetEventController::updateNet when everything on the way has arrived
updateNetAll(p) == \E box \in {AllFrom(SeqOfSet(Peers), p)} : updateNetWith(p, box)

(***************************************************************************)
(* Spec: one NetEventController at a time, as host or as client, over a    *)
(* transport whose state changes in any way.  The rest of the lobby is the *)
(* environment: any GameStateEvent a peer can send may arrive at any time. *)
(***************************************************************************)
\* the state after construction and init() of every controller of the lobby
InitWith(lobby) ==
    /\ ctl = [p \in Peers |-> init(NewController)]
    /\ phys = [p \in Peers |-> NewPhysicsController]
    /\ updateCount = [p \in Peers |-> 0]
    /\ netState = [p \in Peers |-> "NEGOTIATING"]
    /\ players = lobby
    /\ sessionStarted = FALSE
    /\ channel = [sd \in Links |-> <<>>]

Init == InitWith({HostPeer, CHOOSE c \in Clients : \A d \in Clients : c <= d})

\* the GameStateEvent datagrams of a lobby
GameStateDatagrams ==
    {<<0>> \o writeUint64(0, 0) \o GameStateSerialize(e) :
        e \in {allocGameStart, allocReady}
              \cup {allocUIDAssign(u) : u \in 1..Cardinality(players)}}

\* peer s, a peer of the environment, sends datagram m to controller d
EnvSends(s, d, m) ==
    /\ ctl[d].network
    /\ ~ctl[s].network
    /\ channel' = [channel EXCEPT ![<<s, d>>] = Append(@, m)]
    /\ UNCHANGED <<ctl, phys, updateCount, netState, players, sessionStarted>>

\* no other controller of the lobby has been used
Alone(p) == \A q \in Peers \ {p} : ctl[q] = init(NewController)

\* the queues of Spec stay within MaxChan
Bounded == Within(MaxChan)'

Next ==
    \/ \E p \in players : Alone(p) /\ connectAsHost(p, NetStates) /\ Bounded
    \/ \E p \in players : Alone(p) /\ connectAsClient(p, NetStates) /\ Bounded
    \/ \E p \in players : Disconnect(p)
    \/ \E p \in players : ctl[p].network /\ MarkReady(p) /\ Bounded
    \/ \E p \in players : updateNet(p) /\ Bounded
    \/ \E p \in players, s \in NetStates : TransportChanges(p, s)
    \/ \E s, d \in players, m \in GameStateDatagrams : EnvSends(s, d, m) /\ Bounded

Spec == Init /\ [][Next]_vars

(***************************************************************************)
(* The session status (claims C1 and C4).                                  *)
(***************************************************************************)
\* the status changes that the session table lists for one call
ListedStep(s, t) ==
    \/ s = "IDLE" /\ t \in {"CONNECTING", "CONNECTED"}
    \/ s = "CONNECTING" /\ t = "CONNECTED"
    \/ s = "CONNECTED" /\ t = "HANDSHAKE"
    \/ s = "HANDSHAKE" /\ t = "READY"
    \/ s = "READY" /\ t = "INGAME"
    \/ t = "NETERROR"

\* C1: the status of a controller changes only by the listed steps, whatever
\* the transport reports: IDLE to CONNECTING on connect (and on to CONNECTED
\* when the connection is there at once), CONNECTING to CONNECTED, CONNECTED
\* to HANDSHAKE, HANDSHAKE to READY, READY to INGAME, any status to NETERROR,
\* any status to IDLE on disconnect (a connect call on a controller in
\* NETERROR disconnects first); HANDSHAKE, READY and INGAME never go back to
\* CONNECTING or CONNECTED without a disconnect.
C1_OnlyListedSteps ==
    [][\A p \in Peers :
        LET s == ctl[p].status
            t == ctl'[p].status
        IN \/ s = t
           \/ ListedStep(s, t)
           \/ Disconnect(p) /\ t = "IDLE"
           \/ /\ s = "NETERROR"
              /\ t \in {"CONNECTING", "CONNECTED"}
              /\ connectAsHost(p, NetStates) \/ connectAsClient(p, NetStates)]_vars

\* C4: markReady returns true exactly when the status is HANDSHAKE and the
\* short UID is not 0; on true the status is READY and one CLIENT_RDY event is
\* appended to the outbound queue; on false the status, the short UID and
\* both queues are unchanged.
C4_MarkReady ==
    \A p \in Peers :
        LET c == ctl[p]
            r == markReady(c)
        IN /\ r.ret = (c.status = "HANDSHAKE" /\ c.shortUID # 0)
           /\ r.ret =>
                /\ r.c.status = "READY"
                /\ r.c.outEventQueue = Append(c.outEventQueue, allocReady)
                /\ r.c.inEventQueue = c.inEventQueue
                /\ r.c.shortUID = c.shortUID
           /\ ~r.ret =>
                /\ r.c.status = c.status
                /\ r.c.shortUID = c.shortUID
                /\ r.c.outEventQueue = c.outEventQueue
                /\ r.c.inEventQueue = c.inEventQueue

\* a controller on which markReady has just returned true: it is READY, it
\* holds a short UID and the CLIENT_RDY event waits in its outbound queue
C4_Witness ==
    \E p \in Peers :
        /\ ctl[p].status = "READY"
        /\ ctl[p].shortUID # 0
        /\ ctl[p].outEventQueue = <<allocReady>>

(***************************************************************************)
(* HandshakeSpec: a lobby over a transport that behaves: the peers connect,*)
(* the host starts the session, every datagram arrives, nobody leaves.     *)
(***************************************************************************)
\* a controller after connectAsHost / connectAsClient and the updateNet that
\* saw the transport connected
Connected(p) ==
    [init(NewController) EXCEPT !.status = "CONNECTED", !.network = TRUE,
                                !.isHost = (p = HostPeer)]

\* the host and any of the clients have joined the lobby
LobbyInit(lobby) ==
    /\ ctl = [p \in Peers |-> IF p \in lobby THEN Connected(p)
                                ELSE init(NewController)]
    /\ phys = [p \in Peers |-> NewPhysicsController]
    /\ updateCount = [p \in Peers |-> 0]
    /\ netState = [p \in Peers |-> IF p \in lobby THEN "CONNECTED"
                                     ELSE "NEGOTIATING"]
    /\ players = lobby
    /\ sessionStarted = FALSE
    /\ channel = [sd \in Links |-> <<>>]

HandshakeInit == \E lobby \in SUBSET Peers : HostPeer \in lobby /\ LobbyInit(lobby)

\* the queues of HandshakeSpec stay within MaxLoad
HandshakeBounded == Within(MaxLoad)'

HandshakeNext ==
    \/ \E p \in Peers : startGame(p)
    \/ \E p \in Peers : SessionBegins(p)
    \/ \E p \in Peers : ctl[p].network /\ MarkReady(p) /\ HandshakeBounded
    \/ \E p \in Peers : updateNet(p) /\ HandshakeBounded

HandshakeSpec == HandshakeInit /\ [][HandshakeNext]_vars

(***************************************************************************)
(* The handshake (claims C2 and C5).                                       *)
(***************************************************************************)
IsGameState(m, type) ==
    TagOf(m) = 0 /\ GameStateDeserialize(PayloadOf(m)).type = type

\* the GameStateEvent datagrams of kind type in a sequence of datagrams
CountOf(q, type) == Len(SelectSeq(q, LAMBDA m : IsGameState(m, type)))

\* the GAME_START events peer p has enqueued or sent and that have not arrived
GameStartsOf(p) ==
    Len(SelectSeq(ctl[p].outEventQueue, LAMBDA e : e = allocGameStart))
    + CountOf(channel[<<p, p>>], GAME_START)

\* no peer is INGAME while a player of the session is short of READY
C2_AllReadyFirst ==
    (\E p \in Peers : ctl[p].status = "INGAME")
        => \A q \in players : ctl[q].status \in {"READY", "INGAME"}

\* GAME_START is enqueued only by a READY host that has counted as many
\* CLIENT_RDY events as there are players; a peer becomes INGAME only when it
\* is READY and receives GAME_START
C2_Step ==
    \A p \in Peers :
        /\ GameStartsOf(p)' > GameStartsOf(p) =>
              /\ ctl[p].isHost
              /\ ctl[p].status = "READY"
              /\ ctl[p].numReady = Cardinality(players)
        /\ (ctl'[p].status = "INGAME" /\ ctl[p].status # "INGAME") =>
              /\ ctl[p].status = "READY"
              /\ \E s \in Peers : CountOf(channel[<<s, p>>], GAME_START) > 0

\* C2: no peer's status becomes INGAME before every peer of the session, the
\* host included, has made a successful markReady call: the host enqueues
\* GAME_START only while READY with its count of CLIENT_RDY events equal to
\* the player count, and a peer moves to INGAME only on GAME_START while READY.
C2_NoEarlyStart == []C2_AllReadyFirst /\ [][C2_Step]_vars

\* a full lobby in which a peer is INGAME
C2_Witness ==
    /\ players = Peers
    /\ \E p \in Peers : ctl[p].status = "INGAME"

\* the short UIDs that are on their way to peer q or that q holds
UIDsOn(q) ==
    UNION {{GameStateDeserialize(PayloadOf(channel[<<s, q>>][i])).shortUID :
                i \in {j \in 1..Len(channel[<<s, q>>]) :
                          IsGameState(channel[<<s, q>>][j], UID_ASSIGN)}} :
           s \in Peers}
UIDsOf(q) == UIDsOn(q) \cup ({ctl[q].shortUID} \ {0})

\* the UID_ASSIGN events that are on their way to peer q
UIDCount(q) == CountOf(channel[<<HostPeer, q>>], UID_ASSIGN)

\* one UID per player, between 1 and the player count, no UID twice
C5_Distinct ==
    /\ \A q \in Peers :
          /\ UIDCount(q) + (IF ctl[q].shortUID # 0 THEN 1 ELSE 0) <= 1
          /\ UIDsOf(q) \subseteq 1..Cardinality(players)
    /\ \A p, q \in Peers : p # q => UIDsOf(p) \cap UIDsOf(q) = {}

\* a host about to enter HANDSHAKE hands UID i to the i-th player it walks
C5_Ascending ==
    \A h \in Peers :
        (ctl[h].isHost /\ ctl[h].status = "CONNECTED") =>
            \A plist \in SeqsOfSet(players) :
                LET r == checkConnection(ctl[h], updateCount[h], "INSESSION", plist)
                IN /\ Len(r.sends) = Cardinality(players)
                   /\ \A i \in 1..Len(r.sends) :
                        /\ r.sends[i].dst = plist[i]
                        /\ IsGameState(r.sends[i].data, UID_ASSIGN)
                        /\ GameStateDeserialize(PayloadOf(r.sends[i].data)).shortUID = i

\* the host's step into HANDSHAKE puts one UID_ASSIGN on the way to every
\* player; a peer stores a UID only when it is in HANDSHAKE, and then the one
\* that arrived
C5_Step ==
    /\ \A h \in Peers :
          (ctl[h].isHost /\ ctl[h].status = "CONNECTED" /\ ctl'[h].status = "HANDSHAKE")
            => \A q \in players :
                  CountOf(channel'[<<h, q>>], UID_ASSIGN)
                    = CountOf(channel[<<h, q>>], UID_ASSIGN) + 1
    /\ \A q \in Peers :
          (ctl'[q].shortUID # ctl[q].shortUID /\ ctl'[q].shortUID # 0) =>
              /\ ctl'[q].status \in {"HANDSHAKE", "READY", "INGAME"}
              /\ ctl'[q].shortUID \in UIDsOn(q)

LiveInit ==
    \E lobby \in SUBSET Peers :
        /\ HostPeer \in lobby
        /\ ctl = [p \in Peers |-> IF p \in lobby THEN Connected(p)
                                    ELSE init(NewController)]
        /\ phys = [p \in Peers |-> NewPhysicsController]
        /\ updateCount = [p \in Peers |-> Min2(p, MaxTick)]
        /\ netState = [p \in Peers |-> IF p \in lobby THEN "INSESSION"
                                         ELSE "NEGOTIATING"]
        /\ players = lobby
        /\ sessionStarted = TRUE
        /\ channel = [sd \in Links |-> <<>>]

\* the application calls markReady once the short UID is there
MarkReadyWithUID(p) ==
    /\ ctl[p].status = "HANDSHAKE"
    /\ ctl[p].shortUID # 0
    /\ MarkReady(p)

LiveBounded == Within(MaxChan)'

LiveNext ==
    \/ \E p \in Peers : MarkReadyWithUID(p) /\ LiveBounded
    \/ \E p \in Peers : updateNet(p) /\ LiveBounded
    \/ \E p \in Peers : updateNetAll(p) /\ LiveBounded

LiveSpec ==
    /\ LiveInit
    /\ [][LiveNext]_vars
    /\ \A p \in Peers : WF_vars(MarkReadyWithUID(p) /\ LiveBounded)
    /\ \A p \in Peers : WF_vars(updateNetAll(p) /\ LiveBounded)

AllInGame == \A p \in players : ctl[p].status = "INGAME"

\* a peer that becomes INGAME records the update count of that moment
C3_TickRecorded ==
    \A p \in Peers :
        (ctl'[p].status = "INGAME" /\ ctl[p].status # "INGAME")
            => ctl'[p].startGameTimeStamp = updateCount[p]

\* C3: with a transport that delivers every message and a host and its
\* clients all in session, if every peer calls markReady once it has its
\* short UID and keeps calling updateNet, the host eventually broadcasts
\* GAME_START and every peer reaches INGAME with its start tick recorded.
C3_HandshakeCompletes ==
    /\ <>(\E q \in Peers : CountOf(channel[<<HostPeer, q>>], GAME_START) > 0)
    /\ <>[]AllInGame
    /\ [][C3_TickRecorded]_vars

\* a full lobby in which every peer is INGAME, one of them started at a
\* tick other than 0
C3_Witness ==
    /\ players = Peers
    /\ AllInGame
    /\ \E p \in Peers : ctl[p].startGameTimeStamp # 0

(***************************************************************************)
(* OwnSpec: the peers of a full lobby are INGAME with physics enabled.     *)
(* The applications create shared bodies, acquire, release and remove      *)
(* them, and every peer keeps calling updateNet.                           *)
(***************************************************************************)
\* a peer that went through the handshake of a lobby of n players with short
\* UID uid, with physics enabled and one obstacle factory attached
InGame(p, uid, n) ==
    enablePhysics(
        [c  |-> [Connected(p) EXCEPT
                    !.status = "INGAME", !.shortUID = uid,
                    !.numReady = IF p = HostPeer THEN n ELSE 0],
         ph |-> attachFactory(NewPhysicsController)])

\* the host after it has created a body and sent it with its next updateNet
HostWithBody(n) ==
    physicsStep([InGame(HostPeer, HostPeer + 1, n) EXCEPT
                    !.ph = addSharedObstacle(@, 0, 0)])

\* what that updateNet of the host has broadcast, as peer d receives it
BodyBroadcast(d, n) ==
    [i \in 1..Len(HostWithBody(n).c.outEventQueue) |->
        [from |-> HostPeer, src |-> SourceId(HostPeer, d),
         data |-> sendQueuedOutData(HostWithBody(n).c, 0)[i]]]

\* peer p of a lobby of n players once the body of the host has reached it
Replicated(p, n) ==
    processReceivedData(
        IF p = HostPeer
        THEN [HostWithBody(n) EXCEPT !.c.outEventQueue = <<>>]
        ELSE InGame(p, p + 1, n),
        0, BodyBroadcast(p, n), 1)

\* every peer of the lobby has registered the body the host created; nothing
\* is on its way
OwnInitWith(lobby) ==
    /\ ctl = [p \in Peers |-> IF p \in lobby
                                THEN Replicated(p, Cardinality(lobby)).c
                                ELSE init(NewController)]
    /\ phys = [p \in Peers |-> IF p \in lobby
                                 THEN Replicated(p, Cardinality(lobby)).ph
                                 ELSE NewPhysicsController]
    /\ updateCount = [p \in Peers |-> 0]
    /\ netState = [p \in Peers |-> IF p \in lobby THEN "INSESSION"
                                     ELSE "NEGOTIATING"]
    /\ players = lobby
    /\ sessionStarted = TRUE
    /\ channel = [sd \in Links |-> <<>>]

\* the host and the first of the clients
OwnInit == OwnInitWith({HostPeer, CHOOSE c \in Clients : \A d \in Clients : c <= d})

\* the full lobby
LeaseInit == OwnInitWith(Peers)

\* the bodies peer p has registered, and those of them in its world
Bodies(p) == DOMAIN phys[p].objToId
InWorld(p) == {phys[p].objects[i] : i \in 1..Len(phys[p].objects)}

\* the ids the peers have issued
Issued == UNION {{<<phys[p].shortUID, k>> : k \in 0..(phys[p].nextObj - 1)} : p \in Peers}

\* the events of kinds types for body id in a sequence of events
EventsFor(q, id, types) ==
    Len(SelectSeq(q, LAMBDA e : /\ e.class = "PhysObjEvent"
                                /\ e.type \in types
                                /\ e.objId = id))

\* an event of kinds types for body id waits in a physics controller or is
\* on its way to a peer
OnTheWay(id, types) ==
    \/ \E p \in Peers : EventsFor(phys[p].outEvents, id, types) > 0
    \/ \E sd \in Links : \E i \in 1..Len(channel[sd]) :
          LET m == channel[sd][i] IN
          /\ ctl[sd[2]].newEventVector[TagOf(m) + 1] = "PhysObjEvent"
          /\ EventsFor(<<deserialize("PhysObjEvent", PayloadOf(m))>>, id, types) > 0

\* the application of peer p calls addSharedObstacle
AddSharedObstacle(p, bytes) ==
    /\ Cardinality(Issued) < MaxBodies
    /\ \E f \in 0..(phys[p].obstacleFacts - 1) :
          phys' = [phys EXCEPT ![p] = addSharedObstacle(@, f, bytes)]
    /\ UNCHANGED <<ctl, updateCount, netState, players, sessionStarted, channel>>

\* the application of peer p calls acquireObs; it keeps the contract of
\* acquireObs: no other acquisition of the body is still on its way
AcquireObs(p, obs, duration) ==
    /\ obs \in Bodies(p)
    /\ ~OnTheWay(phys[p].objToId[obs], {"OBJ_OWNER_ACQUIRE"})
    /\ phys' = [phys EXCEPT ![p] = acquireObs(@, obs, duration)]
    /\ UNCHANGED <<ctl, updateCount, netState, players, sessionStarted, channel>>

\* the application of peer p calls releaseObs
ReleaseObs(p, obs) ==
    /\ obs \in Bodies(p)
    /\ phys' = [phys EXCEPT ![p] = releaseObs(@, obs)]
    /\ UNCHANGED <<ctl, updateCount, netState, players, sessionStarted, channel>>

\* the application of peer p calls removeSharedObstacle on a body of its world
RemoveSharedObstacle(p, obs) ==
    /\ obs \in InWorld(p)
    /\ phys' = [phys EXCEPT ![p] = removeSharedObstacle(@, obs)]
    /\ UNCHANGED <<ctl, updateCount, netState, players, sessionStarted, channel>>

\* NetEventController::updateNet when receive() hands over what the peer
\* has sent to itself and some first part of what one other sender has on
\* the way
updateNetFromOne(p) ==
    \E s \in Peers \ {p} : \E k \in 0..Len(channel[<<s, p>>]) :
    \E box \in {AllFrom(<<p>>, p)
                \o [i \in 1..k |-> [from |-> s, src |-> SourceId(s, p),
                                     data |-> channel[<<s, p>>][i]]]} :
        updateNetWith(p, box)

\* the outbound events of the physics controllers hold at most cap entries
PhysWithin(cap) == \A p \in Peers : Len(phys[p].outEvents) <= cap

\* the handles a peer has given to bodies
Handles(p) == DOMAIN phys[p].body

OwnBounded == (Within(MaxLoad) /\ PhysWithin(MaxChan))'

OwnNext ==
    \/ \E p \in Peers : \E obs \in Handles(p), d \in 0..MaxDuration :
          AcquireObs(p, obs, d) /\ OwnBounded
    \/ \E p \in Peers : \E obs \in Handles(p) : ReleaseObs(p, obs) /\ OwnBounded
    \/ \E p \in Peers : \E obs \in Handles(p) : RemoveSharedObstacle(p, obs) /\ OwnBounded
    \/ \E p \in Peers : updateNetFromOne(p) /\ OwnBounded

OwnSpec == OwnInit /\ [][OwnNext]_vars

(***************************************************************************)
(* LeaseSpec: a full lobby in which the clients acquire the body and each  *)
(* lease ends by running out.                                              *)
(***************************************************************************)
LeaseBounded == (Within(MaxChan) /\ PhysWithin(MaxChan))'

LeaseNext ==
    \/ \E p \in Clients : \E obs \in Handles(p), d \in 0..MaxDuration :
          AcquireObs(p, obs, d) /\ LeaseBounded
    \/ \E p \in Peers : updateNetFromOne(p) /\ LeaseBounded

LeaseSpec == LeaseInit /\ [][LeaseNext]_vars

(***************************************************************************)
(* The ownership ledger (claims C6 to C9).                                 *)
(***************************************************************************)
\* the ids registered at some peer
AllIds == UNION {DOMAIN phys[p].idToObj : p \in Peers}

\* the peers whose ledger holds an entry for body id
Holders(id) ==
    {p \in players : /\ id \in DOMAIN phys[p].idToObj
                     /\ phys[p].idToObj[id] \in DOMAIN phys[p].owned}

\* body id is in the world of every player and no acquisition or release of
\* it waits in a controller or is on its way
Settled(id) ==
    /\ \A p \in players : /\ id \in DOMAIN phys[p].idToObj
                          /\ phys[p].idToObj[id] \in InWorld(p)
    /\ ~OnTheWay(id, {"OBJ_OWNER_ACQUIRE", "OBJ_OWNER_RELEASE"})

\* C6: while the callers keep the contract of acquireObs (no acquisition of
\* a body while another one is still on its way), whenever no ownership
\* message for a body is in flight exactly one peer holds a ledger entry for
\* it.
C6_SingleOwner ==
    \A id \in AllIds : Settled(id) => Cardinality(Holders(id)) = 1

\* the OBJ_OWNER_RELEASE events for the body behind handle obs of controller ph
ReleasesOf(ph, q, obs) == EventsFor(q, ph.objToId[obs], {"OBJ_OWNER_RELEASE"})

\* C7: each fixedUpdate decrements by one every ledger entry above 1, erases
\* every entry equal to 1 and emits one OBJ_OWNER_RELEASE for it, and leaves
\* every permanent entry (0) as it is; so a lease of d >= 1 ticks that is
\* neither acquired again nor released by hand is held through d - 1
\* fixedUpdates and released on the d-th.
C7_LeaseStep ==
    \A p \in Peers :
        LET ph == phys[p]
            r  == fixedUpdate(ph)
        IN /\ DOMAIN r.owned \subseteq DOMAIN ph.owned
           /\ \A obs \in DOMAIN ph.owned :
                LET left == ph.owned[obs]
                    rels == ReleasesOf(ph, r.outEvents, obs)
                             - ReleasesOf(ph, ph.outEvents, obs)
                IN /\ left > 1 => /\ obs \in DOMAIN r.owned
                                  /\ r.owned[obs] = left - 1
                                  /\ rels = 0
                   /\ left = 1 => /\ obs \notin DOMAIN r.owned
                                  /\ rels = 1
                   /\ left = 0 => /\ obs \in DOMAIN r.owned
                                  /\ r.owned[obs] = 0
                                  /\ rels = 0

\* C8: acquireObs(obs, duration) on a client sets the caller's ledger entry
\* for obs to duration, whether or not it held an entry before, and appends
\* one OBJ_OWNER_ACQUIRE(id, duration) to the outbound events; on the host it
\* leaves a permanent entry (0) whatever duration is, and emits the same
\* event.
C8_Acquire ==
    \A p \in players : \A obs \in Bodies(p), d \in 0..MaxDuration :
        LET ph == phys[p]
            r  == acquireObs(ph, obs, d)
        IN /\ obs \in DOMAIN r.owned
           /\ r.owned[obs] = IF ph.isHost THEN 0 ELSE d
           /\ r.outEvents = Append(ph.outEvents,
                                   allocOwnerAcquire(ph.objToId[obs], d))

\* C9: releaseObs has no effect when called on the host or on a client that
\* holds no ledger entry for the body: ledger and outbound events stay as
\* they are; on a client that holds an entry it erases the entry and appends
\* one OBJ_OWNER_RELEASE(id).
C9_Release ==
    \A p \in players : \A obs \in Bodies(p) :
        LET ph == phys[p]
            r  == releaseObs(ph, obs)
        IN IF ph.isHost \/ obs \notin DOMAIN ph.owned
           THEN r.owned = ph.owned /\ r.outEvents = ph.outEvents
           ELSE /\ r.owned = MapErase(ph.owned, obs)
                /\ r.outEvents = Append(ph.outEvents,
                                        allocOwnerRelease(ph.objToId[obs]))

(***************************************************************************)
(* CreateSpec: a full lobby at the end of the handshake.  Every peer is    *)
(* READY with physics enabled and the host has counted every CLIENT_RDY.   *)
(* The peers keep calling updateNet, and a peer that is INGAME may create  *)
(* a shared body.                                                          *)
(***************************************************************************)
\* a peer of a lobby of n players that holds short UID uid, has enabled
\* physics and has called markReady; the host has counted n ready players
InReady(p, uid, n) ==
    [InGame(p, uid, n) EXCEPT !.c.status = "READY"]

CreateInit ==
    /\ ctl = [p \in Peers |-> InReady(p, p + 1, Cardinality(Peers)).c]
    /\ phys = [p \in Peers |-> InReady(p, p + 1, Cardinality(Peers)).ph]
    /\ updateCount = [p \in Peers |-> 0]
    /\ netState = [p \in Peers |-> "INSESSION"]
    /\ players = Peers
    /\ sessionStarted = TRUE
    /\ channel = [sd \in Links |-> <<>>]

\* the application of an in-game peer creates a body
CreateBody(p, bytes) ==
    /\ ctl[p].status = "INGAME"
    /\ AddSharedObstacle(p, bytes)

CreateNext ==
    \/ \E p \in Peers, bytes \in 0..1 : CreateBody(p, bytes) /\ OwnBounded
    \/ \E p \in Peers : updateNetFromOne(p) /\ OwnBounded

CreateSpec == CreateInit /\ [][CreateNext]_vars

\* C10: once an in-game peer has called addSharedObstacle and its
\* OBJ_CREATION is no longer on its way, with every peer in the game, every
\* peer's registry holds the id, bound to a body built from the same bytes,
\* whatever the interleaving of the handshake with the arrivals was; the
\* host holds a permanent ledger entry for it and the clients hold none.
C10_Replicated ==
    \A id \in AllIds :
        (AllInGame /\ ~OnTheWay(id, {"OBJ_CREATION"})) =>
            \A p \in players :
                /\ id \in DOMAIN phys[p].idToObj
                /\ \A q \in players :
                      id \in DOMAIN phys[q].idToObj =>
                          phys[p].body[phys[p].idToObj[id]].x
                            = phys[q].body[phys[q].idToObj[id]].x
                /\ p = HostPeer => /\ p \in Holders(id)
                                   /\ phys[p].owned[phys[p].idToObj[id]] = 0
                /\ p # HostPeer => p \notin Holders(id)

(***************************************************************************)
(* The body registry (claims C11 to C14).                                  *)
(***************************************************************************)
\* C11: addSharedObstacle(f, bytes) with a registered factory binds the new
\* body to the id made of the world's short UID and the number of ids the
\* world has allocated before, registers it in both registry maps with
\* shared = true, appends exactly one OBJ_CREATION(f, id, bytes) to the
\* outbound events, and adds a permanent ledger entry for the body exactly
\* when the peer is the host.
C11_AddShared ==
    \A p \in players : \A f \in 0..(phys[p].obstacleFacts - 1), bytes \in 0..1 :
        LET ph == phys[p]
            r  == addSharedObstacle(ph, f, bytes)
            id == <<ph.shortUID, ph.nextObj>>
            new == DOMAIN r.objToId \ DOMAIN ph.objToId
        IN /\ r.nextObj = ph.nextObj + 1
           /\ Cardinality(new) = 1
           /\ \A h \in new :
                /\ r.objToId[h] = id
                /\ id \in DOMAIN r.idToObj /\ r.idToObj[id] = h
                /\ r.objects = Append(ph.objects, h)
                /\ r.body[h].shared
                /\ r.body[h] = setShared(createObstacle(bytes), TRUE)
                /\ IF ph.isHost
                   THEN r.owned = ph.owned @@ (h :> 0)
                   ELSE r.owned = ph.owned
           /\ \A i \in DOMAIN ph.idToObj : r.idToObj[i] = ph.idToObj[i]
           /\ DOMAIN r.idToObj = DOMAIN ph.idToObj \cup {id}
           /\ r.outEvents = Append(ph.outEvents, allocCreation(f, id, bytes))

\* a peer has just created a body: its OBJ_CREATION waits in the outbound events
C11_Witness ==
    \E p \in players :
        /\ phys[p].nextObj = 1
        /\ \E bytes \in 0..1 :
              phys[p].outEvents
                = <<allocCreation(0, <<phys[p].shortUID, 0>>, bytes)>>

\* the ids a peer of the lobby can issue
IssuableIds == {<<p + 1, k>> : p \in Peers, k \in 0..MaxBodies}

\* C12: processing a remote OBJ_CREATION(f, id, bytes) for an id that is not
\* yet registered builds the body with factory f, registers it under that
\* id in both registry maps with shared = true, appends nothing to the
\* outbound events, and adds a permanent ledger entry for it exactly when
\* the receiver is the host.
C12_RemoteCreation ==
    \A p \in players : \A id \in IssuableIds \ DOMAIN phys[p].idToObj :
    \A f \in 0..(phys[p].obstacleFacts - 1), bytes \in 0..1 :
        LET ph == phys[p]
            r  == processPhysObjEvent(ph, allocCreation(f, id, bytes), "remote")
            new == DOMAIN r.objToId \ DOMAIN ph.objToId
        IN /\ Cardinality(new) = 1
           /\ \A h \in new :
                /\ r.objToId[h] = id
                /\ id \in DOMAIN r.idToObj /\ r.idToObj[id] = h
                /\ r.objects = Append(ph.objects, h)
                /\ r.body[h] = setShared(createObstacle(bytes), TRUE)
                /\ IF ph.isHost
                   THEN r.owned = ph.owned @@ (h :> 0)
                   ELSE r.owned = ph.owned
           /\ DOMAIN r.idToObj = DOMAIN ph.idToObj \cup {id}
           /\ r.nextObj = ph.nextObj
           /\ r.outEvents = ph.outEvents

\* what C13 states of controller r after the deletion of body obs with id
Deleted(r, obs, id) ==
    /\ id \notin DOMAIN r.idToObj
    /\ obs \notin DOMAIN r.objToId
    /\ \A i \in 1..Len(r.objects) : r.objects[i] # obs
    /\ obs \notin DOMAIN r.cache

\* C13: after a shared body is deleted, by removeSharedObstacle or by a
\* remote OBJ_DELETION, its id is in neither registry map, the body is not
\* in the simulator's object list and no interpolation target for it is in
\* the cache; the local deletion emits exactly one OBJ_DELETION, the remote
\* one emits none.
C13_Deletion ==
    \A p \in players : \A obs \in InWorld(p) :
        LET ph == phys[p]
            id == ph.objToId[obs]
            loc == removeSharedObstacle(ph, obs)
            rem == processPhysObjEvent(ph, allocDeletion(id), "remote")
        IN /\ Deleted(loc, obs, id)
           /\ loc.outEvents = Append(ph.outEvents, allocDeletion(id))
           /\ Deleted(rem, obs, id)
           /\ rem.outEvents = ph.outEvents

(***************************************************************************)
(* IdSpec: the host and a client are INGAME with physics enabled; their    *)
(* worlds were set up with the same obstacles of the level.  Each peer     *)
(* creates shared bodies and removes bodies, and keeps calling updateNet.  *)
(***************************************************************************)
\* a world set up with n obstacles of the level
RECURSIVE WithInitObstacles(_, _)
WithInitObstacles(ph, n) ==
    IF n = 0 THEN ph
    ELSE LET w == WithInitObstacles(ph, n - 1)
             h == w.nextHandle
         IN addInitObstacle([w EXCEPT !.nextHandle = @ + 1,
                                      !.body = MapPut(@, h, createObstacle(0))], h)

IdInit ==
    \E n \in 0..1 :
    \E lobby \in {{HostPeer, CHOOSE c \in Clients : \A d \in Clients : c <= d}} :
        /\ ctl = [p \in Peers |-> IF p \in lobby
                                    THEN InGame(p, p + 1, Cardinality(lobby)).c
                                    ELSE init(NewController)]
        /\ phys = [p \in Peers |->
                     IF p \in lobby
                     THEN WithInitObstacles(InGame(p, p + 1, Cardinality(lobby)).ph, n)
                     ELSE NewPhysicsController]
        /\ updateCount = [p \in Peers |-> 0]
        /\ netState = [p \in Peers |-> IF p \in lobby THEN "INSESSION"
                                         ELSE "NEGOTIATING"]
        /\ players = lobby
        /\ sessionStarted = TRUE
        /\ channel = [sd \in Links |-> <<>>]

\* the ids the worlds of the peers have issued so far without the ids of the
\* obstacles of the level
IssuedByCalls ==
    UNION {{phys[p].objToId[h] : h \in {g \in Bodies(p) : phys[p].objToId[g][1] = phys[p].shortUID}}
           : p \in players}

\* the application of peer p calls addSharedObstacle
IssueBody(p) ==
    /\ Cardinality(IssuedByCalls) < MaxIssued
    /\ phys' = [phys EXCEPT ![p] = addSharedObstacle(@, 0, 0)]
    /\ UNCHANGED <<ctl, updateCount, netState, players, sessionStarted, channel>>

\* the host sends its PhysSync with its events: its links hold one message more
HostBounded ==
    (/\ Within(MaxLoad)
     /\ PhysWithin(MaxChan)
     /\ \A sd \in Links : sd[1] # HostPeer => Len(channel[sd]) <= MaxChan)'

IdNext ==
    \/ \E p \in players : IssueBody(p) /\ HostBounded
    \/ \E p \in players : \E obs \in Handles(p) : RemoveSharedObstacle(p, obs) /\ HostBounded
    \/ \E p \in players : updateNetFromOne(p) /\ HostBounded

IdSpec == IdInit /\ [][IdNext]_vars


\* the ids the world of peer p issued at this step
IssuedNow(p) ==
    {<<phys[p].shortUID, k>> : k \in phys[p].nextObj..(phys'[p].nextObj - 1)}

C14_Unique ==
    /\ \A p, q \in players : p # q => phys[p].shortUID # phys[q].shortUID
    /\ \A p \in players : phys[p].shortUID # 0 /\ phys[p].shortUID # InitUID
    \* every id with the originator of p was issued by the counter of p
    /\ \A p \in players : \A id \in AllIds :
          id[1] = phys[p].shortUID => id[2] < phys[p].nextObj
    /\ \A p \in players : NextObjId(phys[p]) \notin AllIds
    \* two handles of one world never share an id
    /\ \A p \in players : \A g, h \in Bodies(p) :
          phys[p].objToId[g] = phys[p].objToId[h] => g = h

C14_Step ==
    \A p \in players :
        /\ phys'[p].nextObj >= phys[p].nextObj
        /\ phys'[p].shortUID = phys[p].shortUID
        /\ IssuedNow(p) \cap AllIds = {}
        /\ \A id \in IssuedNow(p) : id[1] # InitUID
        /\ \A q \in players : p # q => IssuedNow(p) \cap IssuedNow(q) = {}
        /\ \A h \in Bodies(p) \cap Bodies(p)' :
              phys'[p].objToId[h] = phys[p].objToId[h]

\* C14: body ids are unique and immutable: with pairwise distinct non-zero
\* short UIDs no two addSharedObstacle calls on any peers yield the same id,
\* none has the originator of the ids of the level (0xffffffff), an id is
\* not issued again after its body was deleted, and the id of a registered
\* body never changes.
C14_IdsUnique == [](C14_Unique) /\ [][C14_Step]_vars

\* both peers have issued ids, the host two of them, a body of the level is
\* registered and a body the host created was removed from its world
C14_Witness ==
    /\ \A p \in players : phys[p].nextObj >= 2
    /\ \A p \in players : \E h \in Bodies(p) : phys[p].objToId[h][1] = phys[p].shortUID
    /\ \E p \in players : \E h \in Bodies(p) : phys[p].objToId[h][1] = InitUID
    /\ \E h \in Bodies(HostPeer) :
          /\ phys[HostPeer].objToId[h][1] = phys[HostPeer].shortUID
          /\ h \notin InWorld(HostPeer)
    /\ \E p \in players : \E id \in DOMAIN phys[p].idToObj : id[1] \notin {phys[p].shortUID, InitUID}


(***************************************************************************)
(* Synchronization snapshots.                                              *)
(***************************************************************************)
SyncTypes == {"FULL_SYNC", "OVERRIDE_FULL_SYNC"}

\* the ids packPhysSync has to report on a world
SyncIds(ph, type) ==
    {id \in DOMAIN ph.idToObj :
        /\ ph.body[ph.idToObj[id]].shared
        /\ type = "FULL_SYNC" => ph.idToObj[id] \in DOMAIN ph.owned}

SetAngle(p, obs, v) ==
    /\ obs \in InWorld(p)
    /\ phys[p].body[obs].angle # v
    /\ phys' = [phys EXCEPT ![p].body[obs] = setAngle(@, v)]
    /\ UNCHANGED <<ctl, updateCount, netState, players, sessionStarted, channel>>

InterpNext ==
    \/ \E p \in players : \E obs \in Handles(p) : \E v \in 0..MaxAngle :
          SetAngle(p, obs, v) /\ HostBounded
    \/ \E p \in players : updateNetFromOne(p) /\ HostBounded

InterpSpec == OwnInit /\ [][InterpNext]_vars


\* peer p receives nothing from the other peers at this step
Quiet(p) == \A s \in Peers \ {p} : channel'[<<s, p>>] = channel[<<s, p>>]

\* the body has the pose of the target
AtTarget(b, t) ==
    /\ b.x = t.P3
    /\ b.vx = t.targetVel
    /\ b.angle = t.targetAngle
    /\ b.angV = t.targetAngV

\* every target of the cache has between 1 and MaxSteps steps, of which at
\* least one is left
C16_Counted ==
    \A p \in Peers : \A o \in DOMAIN phys[p].cache :
        /\ phys[p].cache[o].numSteps \in 1..MaxSteps
        /\ phys[p].cache[o].curStep \in 0..(phys[p].cache[o].numSteps - 1)

\* what a step does to the target t of the shared body o of peer p: nothing,
\* or one fixedUpdate, after which a newer snapshot may have replaced it
C16_Step ==
    \A p \in Peers : \A o \in DOMAIN phys[p].cache :
        LET t     == phys[p].cache[o]
            left  == t.numSteps - t.curStep
            cache == phys'[p].cache
            newer == ~Quiet(p) /\ o \in DOMAIN cache /\ cache[o].curStep = 0
        IN phys[p].body[o].shared =>
              \/ o \in DOMAIN cache /\ cache[o] = t
              \/ newer
              \/ /\ left > 1
                 /\ o \in DOMAIN cache
                 /\ cache[o] = [t EXCEPT !.curStep = @ + 1]
              \/ /\ left = 1
                 /\ o \notin DOMAIN cache
                 /\ Quiet(p) => AtTarget(phys'[p].body[o], t)

\* C16: a target adopted with N steps, for a body that stays shared and gets
\* no newer snapshot, is advanced by exactly N fixedUpdates: it stays in the
\* cache for the first N - 1 and on the N-th the body gets exactly the pose
\* of the target and the entry leaves the cache.
C16_Interpolation == [](C16_Counted) /\ [][C16_Step]_vars

\* a shared body went through all but the last step of a target of more than
\* one step and is not yet at the angle of the target
C16_Witness ==
    \E p \in players : \E o \in DOMAIN phys[p].cache :
        /\ phys[p].body[o].shared
        /\ phys[p].cache[o].numSteps > 1
        /\ phys[p].cache[o].numSteps - phys[p].cache[o].curStep = 1
        /\ ~AtTarget(phys[p].body[o], phys[p].cache[o])


(***************************************************************************)
(* Deltas and snapshots for ids without a body.                            *)
(***************************************************************************)
\* the ids of the bodies in the world of peer p
LiveIds(p) == {phys[p].objToId[o] : o \in InWorld(p) \cap Bodies(p)}

\* the deltas other than a creation that can arrive for an id
DeltasFor(id) ==
    {allocDeletion(id), allocOwnerRelease(id)}
    \cup {allocOwnerAcquire(id, d) : d \in 0..MaxDuration}
    \cup UNION {{allocPos(id, v), allocVel(id, v), allocAngle(id, v), allocAngularVel(id, v)}
                : v \in 0..MaxAngle}

\* a record of a snapshot
Record(id, v) == [objId |-> id, x |-> v, vx |-> v, angle |-> v, vAngular |-> v]

\* deltas and snapshot records for the ids of unknown are dropped by peer p,
\* and the records that follow them in the snapshot are processed
IgnoresIds(p, unknown) ==
    \A id \in unknown :
        /\ \A e \in DeltasFor(id) : processPhysObjEvent(phys[p], e, "remote") = phys[p]
        /\ \A v \in 0..MaxAngle :
              /\ processPhysSyncEvent(phys[p],
                     [allocPhysSync EXCEPT !.syncList = <<Record(id, v)>>], "remote") = phys[p]
              /\ \A known \in DOMAIN phys[p].idToObj \ unknown :
                    processPhysSyncEvent(phys[p],
                        [allocPhysSync EXCEPT !.syncList = <<Record(id, v), Record(known, v)>>],
                        "remote")
                    = processPhysSyncEvent(phys[p],
                        [allocPhysSync EXCEPT !.syncList = <<Record(known, v)>>], "remote")

\* C17: a delta other than a creation, or a snapshot record, for an id that
\* has no body on the receiver (never registered, or deleted earlier) changes
\* nothing: registry, ledger, cache, bodies and outbound events stay as they
\* are, and the records after it in the same snapshot are processed.
C17_UnknownIdNoOp ==
    \A p \in players : IgnoresIds(p, (IssuableIds \cup AllIds) \ LiveIds(p))

\* the part of C17 for ids that were never registered on the receiver
C17_NeverRegistered ==
    \A p \in players : IgnoresIds(p, IssuableIds \ DOMAIN phys[p].idToObj)


(***************************************************************************)
(* EventSpec: the host and a client are INGAME without physics and have    *)
(* attached one event class of their own.  The applications count their    *)
(* updates, push events, call updateNet and pop the inbound events that    *)
(* are available.  A peer receives what the other peer and what it itself  *)
(* has broadcast.  The game of peer p started at its update p, so the      *)
(* update counts differ while the game ticks start at 0.                   *)
(***************************************************************************)
Playing(p, n) ==
    [attachEventType(Connected(p), "AppEvent") EXCEPT
        !.status = "INGAME", !.shortUID = p + 1, !.startGameTimeStamp = p,
        !.numReady = IF p = HostPeer THEN n ELSE 0]

EventInit ==
    \E lobby \in {{HostPeer, CHOOSE c \in Clients : \A d \in Clients : c <= d}} :
        /\ ctl = [p \in Peers |-> IF p \in lobby THEN Playing(p, Cardinality(lobby))
                                    ELSE init(NewController)]
        /\ phys = [p \in Peers |-> NewPhysicsController]
        /\ updateCount = [p \in Peers |-> p]
        /\ netState = [p \in Peers |-> IF p \in lobby THEN "INSESSION"
                                         ELSE "NEGOTIATING"]
        /\ players = lobby
        /\ sessionStarted = TRUE
        /\ channel = [sd \in Links |-> <<>>]

\* the application of peer p has finished one more update
Tick(p) ==
    /\ getGameTick(ctl[p], updateCount[p]) < MaxGameTick
    /\ updateCount' = [updateCount EXCEPT ![p] = @ + 1]
    /\ UNCHANGED <<ctl, phys, netState, players, sessionStarted, channel>>

\* the application of peer p calls pushOutEvent with an event of its class
PushOut(p, v) ==
    /\ ctl' = [ctl EXCEPT ![p] = pushOutEvent(@, allocApp(v))]
    /\ UNCHANGED <<phys, updateCount, netState, players, sessionStarted, channel>>

\* the application of peer p polls isInAvailable and calls popInEvent
PopIn(p) ==
    /\ isInAvailable(ctl[p], updateCount[p])
    /\ ctl' = [ctl EXCEPT ![p] = popInEvent(@).c]
    /\ UNCHANGED <<phys, updateCount, netState, players, sessionStarted, channel>>

\* one event is on each link and in each outbound queue at most
EventBounded ==
    (/\ Within(MaxLoad)
     /\ \A sd \in Links : Len(channel[sd]) <= MaxChan
     /\ \A p \in Peers : Len(ctl[p].outEventQueue) <= MaxChan)'

EventNext ==
    \/ \E p \in players : Tick(p)
    \/ \E p \in players : PushOut(p, 0) /\ EventBounded
    \/ \E p \in players : updateNet(p) /\ EventBounded
    \/ \E p \in players : PopIn(p)

EventSpec == EventInit /\ [][EventNext]_vars


\* the sender ticks of the inbound events of peer p
SenderTicks(p) ==
    {ctl[p].inEventQueue[i].eventTimeStamp : i \in 1..Len(ctl[p].inEventQueue)}

\* C18: isInAvailable is true exactly when the inbound queue is not empty and
\* the sender tick of its head is at most the local game tick (update count
\* less the update at which the game started); an event from the future is
\* held back until then, and popInEvent then yields it, the head of the queue.
C18_IsInAvailable ==
    \A p \in players :
        LET c == ctl[p]
            q == c.inEventQueue
        IN /\ isInAvailable(c, updateCount[p])
                <=> (q # <<>> /\ q[1].eventTimeStamp <= updateCount[p] - c.startGameTimeStamp)
           /\ q # <<>> =>
                 /\ popInEvent(c).ret = q[1]
                 /\ popInEvent(c).c = [c EXCEPT !.inEventQueue = SubSeq(q, 2, Len(q))]

\* the head of a queue came from the future, was held back when it was
\* received, and has become available now that the local game tick has
\* reached its sender tick
C18_Witness ==
    \E p \in players :
        /\ ctl[p].inEventQueue # <<>>
        /\ Head(ctl[p].inEventQueue).receiveTimeStamp < Head(ctl[p].inEventQueue).eventTimeStamp
        /\ Head(ctl[p].inEventQueue).eventTimeStamp = getGameTick(ctl[p], updateCount[p])
        /\ isInAvailable(ctl[p], updateCount[p])

\* C19: inbound events are delivered in the order in which they become due:
\* whenever the queue holds an event whose sender tick is at most the local
\* game tick, isInAvailable is true and popInEvent yields an event with the
\* lowest sender tick of the queue (so the popped ticks never decrease), for
\* every interleaving of the arrivals from several senders.
C19_DueOrder ==
    \A p \in players :
        (\E t \in SenderTicks(p) : t <= getGameTick(ctl[p], updateCount[p]))
        => /\ isInAvailable(ctl[p], updateCount[p])
           /\ \A t \in SenderTicks(p) : popInEvent(ctl[p]).ret.eventTimeStamp <= t


(***************************************************************************)
(* OutSpec: the host and a client have registered the body the host        *)
(* created and have attached one event class of their own.  The            *)
(* applications push events, take the body over, call updateNet and pop    *)
(* their inbound events.                                                   *)
(***************************************************************************)
OutInit ==
    \E lobby \in {{HostPeer, CHOOSE c \in Clients : \A d \in Clients : c <= d}} :
        /\ ctl = [p \in Peers |->
                    IF p \in lobby
                    THEN attachEventType(Replicated(p, Cardinality(lobby)).c, "AppEvent")
                    ELSE init(NewController)]
        /\ phys = [p \in Peers |-> IF p \in lobby
                                     THEN Replicated(p, Cardinality(lobby)).ph
                                     ELSE NewPhysicsController]
        /\ updateCount = [p \in Peers |-> 0]
        /\ netState = [p \in Peers |-> IF p \in lobby THEN "INSESSION"
                                         ELSE "NEGOTIATING"]
        /\ players = lobby
        /\ sessionStarted = TRUE
        /\ channel = [sd \in Links |-> <<>>]

\* the events of one updateNet fit on a link; nothing else waits there
OutBounded ==
    (/\ \A sd \in Links : Len(channel[sd]) <= MaxOut
     /\ \A p \in Peers : /\ Len(ctl[p].outEventQueue) <= MaxLoad
                         /\ Len(ctl[p].inEventQueue) <= MaxChan
     /\ PhysWithin(MaxChan))'

\* the other players have received what peer p broadcast before
Drained(p) == \A d \in players \ {p} : channel[<<p, d>>] = <<>>

\* the application numbers the events it pushes between two updateNet calls;
\* a link holds the datagrams of one updateNet at most
OutNext ==
    \/ \E p \in players : PushOut(p, Len(ctl[p].outEventQueue)) /\ OutBounded
    \/ \E p \in players \ {HostPeer} : \E obs \in Handles(p) :
          AcquireObs(p, obs, 0) /\ OutBounded
    \/ \E p \in players : Drained(p) /\ updateNetFromOne(p) /\ OutBounded
    \/ \E p \in players : PopIn(p)

OutSpec == OutInit /\ [][OutNext]_vars


\* what peer p has put on its link to peer d at this step
SentTo(p, d) ==
    SubSeq(channel'[<<p, d>>], Len(channel[<<p, d>>]) + 1, Len(channel'[<<p, d>>]))

\* this step is an updateNet of peer p that found events in the outbound
\* queue or that broadcast something
Flushes(p) ==
    \/ ctl[p].outEventQueue # <<>> /\ ctl'[p].outEventQueue = <<>>
    \/ \E d \in players \ {p} : Len(channel'[<<p, d>>]) > Len(channel[<<p, d>>])

\* the tag of the class of the application
AppTag(p) == getType(ctl[p], allocApp(0))

\* the events pushed are broadcast once each, in the order pushed and before
\* the events of the engine, and the outbound queue is left empty
BroadcastsQueue(p) ==
    LET q == ctl[p].outEventQueue
    IN /\ ctl'[p].outEventQueue = <<>>
       /\ \A d \in players \ {p} :
             /\ SubSeq(channel'[<<p, d>>], 1, Len(channel[<<p, d>>])) = channel[<<p, d>>]
             /\ Len(SentTo(p, d)) >= Len(q)
             /\ \A i \in 1..Len(q) :
                   SentTo(p, d)[i] = wrap(ctl[p], updateCount[p], q[i])
             /\ \A i \in (Len(q) + 1)..Len(SentTo(p, d)) : TagOf(SentTo(p, d)[i]) # AppTag(p)
             \* the peer itself receives the same datagrams
             /\ Len(channel'[<<p, p>>]) >= Len(SentTo(p, d))
             /\ SubSeq(channel'[<<p, p>>],
                       Len(channel'[<<p, p>>]) - Len(SentTo(p, d)) + 1,
                       Len(channel'[<<p, p>>])) = SentTo(p, d)

\* C20: every event passed to pushOutEvent while a connection exists is
\* broadcast exactly once by the next updateNet, in the order pushed and
\* ahead of the events of the engine of that tick (deltas, ownership events,
\* snapshot); after updateNet the outbound queue is empty.
C20_Outbound ==
    [][\A p \in players : (ctl[p].network /\ Flushes(p)) => BroadcastsQueue(p)]_vars

\* a peer has broadcast two events of the application and, after them, an
\* event of the engine; they wait on the link to the other peer
C20_Witness ==
    \E p \in players : \E d \in players \ {p} :
        /\ Len(channel[<<p, d>>]) = MaxOut
        /\ TagOf(channel[<<p, d>>][1]) = AppTag(p) /\ PayloadOf(channel[<<p, d>>][1]) = <<0>>
        /\ TagOf(channel[<<p, d>>][2]) = AppTag(p) /\ PayloadOf(channel[<<p, d>>][2]) = <<1>>
        /\ TagOf(channel[<<p, d>>][3]) # AppTag(p)
        /\ ctl[p].outEventQueue = <<>>

(***************************************************************************)
(* RegSpec: every peer has its short UID.  The applications attach event   *)
(* classes of their own and enable physics, in any order.                  *)
(***************************************************************************)
AppClasses == {"AppEvent", "AppEvent2"}

RegInit ==
    /\ ctl = [p \in Peers |-> [Connected(p) EXCEPT !.status = "HANDSHAKE",
                                                   !.shortUID = p + 1]]
    /\ phys = [p \in Peers |-> attachFactory(NewPhysicsController)]
    /\ updateCount = [p \in Peers |-> 0]
    /\ netState = [p \in Peers |-> "INSESSION"]
    /\ players = Peers
    /\ sessionStarted = TRUE
    /\ channel = [sd \in Links |-> <<>>]

\* the application of peer p calls attachEventType<T>
AttachEventType(p, T) ==
    /\ ctl' = [ctl EXCEPT ![p] = attachEventType(@, T)]
    /\ UNCHANGED <<phys, updateCount, netState, players, sessionStarted, channel>>

\* the application of peer p calls enablePhysics
EnablePhysics(p) ==
    /\ ctl[p].shortUID # 0
    /\ \E cp \in {enablePhysics([c |-> ctl[p], ph |-> phys[p]])} :
          /\ ctl' = [ctl EXCEPT ![p] = cp.c]
          /\ phys' = [phys EXCEPT ![p] = cp.ph]
    /\ UNCHANGED <<updateCount, netState, players, sessionStarted, channel>>

RegNext ==
    \/ \E p \in Peers : \E T \in AppClasses : AttachEventType(p, T)
    \/ \E p \in Peers : EnablePhysics(p)

RegSpec == RegInit /\ [][RegNext]_vars

\* the classes the engine brings with it, in the order of their tags
BuiltIn == <<"GameStateEvent", "PhysSyncEvent", "PhysObjEvent">>

\* C23: the three built-in event classes are registered first: wherever
\* physics is enabled GameState, PhysSync and PhysObj have the tags 0, 1 and
\* 2, in whatever order the application attaches its own classes and enables
\* physics; attaching a registered class changes neither registry nor tags.
C23_BuiltInFirst ==
    \A p \in Peers :
        /\ ctl[p].physEnabled =>
              /\ Len(ctl[p].newEventVector) >= Len(BuiltIn)
              /\ SubSeq(ctl[p].newEventVector, 1, Len(BuiltIn)) = BuiltIn
        /\ \A i \in 1..Len(ctl[p].newEventVector) :
              attachEventType(ctl[p], ctl[p].newEventVector[i]) = ctl[p]

\* the part of C23 about attaching a class again
C23_AttachAgain ==
    \A p \in Peers : \A i \in 1..Len(ctl[p].newEventVector) :
        attachEventType(ctl[p], ctl[p].newEventVector[i]) = ctl[p]

(***************************************************************************)
(* Transport errors and disconnect.                                        *)
(***************************************************************************)
\* C24: whenever checkConnection finds the transport denied, disconnected,
\* failed, invalid or mismatched, the status becomes NETERROR and the call
\* returns false, whatever the status was, on the host and on a client.
C24_ErrorState ==
    \A p \in Peers : ctl[p].network =>
        \A s \in ErrorStates : \A plist \in PlayerOrders(ctl[p], s) :
            LET r == checkConnection(ctl[p], updateCount[p], s, plist)
            IN r.c.status = "NETERROR" /\ ~r.ret

\* C25: while the status is NETERROR the core emits nothing: an updateNet
\* that finds or leaves the status NETERROR puts no datagram on any link,
\* whether the events in the outbound queue were pushed before or after the
\* error, until disconnect and a new connection.
C25_Silent ==
    [][\A p \in Peers :
          ctl'[p].status = "NETERROR" =>
              \A d \in Peers : Len(channel'[<<p, d>>]) <= Len(channel[<<p, d>>])]_vars

\* a controller as disconnect has to leave it
Reset(c) ==
    /\ c.status = "IDLE"
    /\ c.shortUID = 0
    /\ c.numReady = 0
    /\ c.startGameTimeStamp = 0
    /\ ~c.isHost
    /\ ~c.physEnabled
    /\ c.inEventQueue = <<>>
    /\ c.outEventQueue = <<>>

\* C26: disconnect may be called in any status; afterwards the status is
\* IDLE, short UID, ready count and start tick are 0, the host flag is
\* false, physics is disabled and both queues are empty, so that no event
\* queued before the call is broadcast after it.
C26_Disconnect ==
    \A p \in Peers : \A c \in disconnectCalled(ctl[p]) : Reset(c)

\* the part of C26 for a controller that has a connection
C26_Connected ==
    \A p \in Peers : ctl[p].network => Reset(disconnect(ctl[p]))

(***************************************************************************)
(* Writes of the engine into bodies.                                       *)
(***************************************************************************)
\* this step is a call of a setter by the application of some peer
AppSets ==
    \E p \in Peers : \E obs \in DOMAIN phys[p].body : \E v \in 0..MaxAngle :
        phys' = [phys EXCEPT ![p].body[obs] = setAngle(@, v)]

\* C27: applying remote data never causes a re-publish: after the engine
\* has processed a remote delta, replaced a target or made an interpolation
\* step, the next packPhysObj emits no delta for the body unless the
\* application has set a property of it in between; no delta is echoed.
C27_NoEcho ==
    [][~AppSets =>
          \A p \in Peers :
              phys'[p] # phys[p] =>
                  /\ packPhysObj(phys'[p]).outEvents = phys'[p].outEvents
                  /\ \A o \in DOMAIN phys[p].body :
                        phys'[p].body[o].dirty \subseteq phys[p].body[o].dirty]_vars

\* the host and the client have the body at the same angle, which one of
\* them has got from the other; both copies are shared and nothing is
\* left to publish
C27_Witness ==
    /\ sessionStarted
    /\ \E o \in Bodies(HostPeer) : \E c \in players \ {HostPeer} : \E r \in Bodies(c) :
          /\ phys[HostPeer].objToId[o] = phys[c].objToId[r]
          /\ phys[HostPeer].body[o].angle # 0
          /\ phys[c].body[r].angle = phys[HostPeer].body[o].angle
          /\ phys[HostPeer].body[o].shared /\ phys[c].body[r].shared
          /\ phys[HostPeer].body[o].dirty = {} /\ phys[c].body[r].dirty = {}


\* the bodies of ph that stay registered all have the shared flag they
\* have in ph0
SharedKept(ph0, ph) ==
    \A o \in DOMAIN ph0.body :
        o \in DOMAIN ph.body => ph.body[o].shared = ph0.body[o].shared

\* C28: every operation of the engine that writes remote data into a body
\* (processPhysObjEvent for a property or ownership delta, addSyncObject
\* when it replaces a target, the interpolation step of fixedUpdate) leaves
\* the shared flag of the body equal to the value it had before.
C28_SharedRestored ==
    \A p \in players :
        /\ \A o \in Bodies(p) : \A e \in DeltasFor(phys[p].objToId[o]) :
              e.type # "OBJ_DELETION"
                  => SharedKept(phys[p], processPhysObjEvent(phys[p], e, "remote"))
        /\ \A o \in Bodies(p) : \A v \in 0..MaxAngle :
              SharedKept(phys[p],
                  processPhysSyncEvent(phys[p],
                      [class |-> "PhysSyncEvent",
                       syncList |-> <<Record(phys[p].objToId[o], v)>>], "remote"))
        /\ SharedKept(phys[p], stepCache(phys[p]))

\* the three operations on bodies that are shared when the operation starts
C28_SharedBodies ==
    \A p \in players :
        /\ \A o \in Bodies(p) : \A e \in DeltasFor(phys[p].objToId[o]) :
              (e.type # "OBJ_DELETION" /\ phys[p].body[o].shared)
                  => processPhysObjEvent(phys[p], e, "remote").body[o].shared
        /\ \A o \in Bodies(p) : \A v \in 0..MaxAngle :
              phys[p].body[o].shared
                  => processPhysSyncEvent(phys[p],
                         [class |-> "PhysSyncEvent",
                          syncList |-> <<Record(phys[p].objToId[o], v)>>],
                         "remote").body[o].shared
        /\ \A o \in Bodies(p) :
              phys[p].body[o].shared => stepCache(phys[p]).body[o].shared


\* a PhysSync event with one record, as another peer sends it
OneRecord(id, v) == [allocPhysSync EXCEPT !.syncList = <<Record(id, v)>>]

\* ph differs from ph0 in nothing but the interpolation cache, where body o
\* has the one target made of its pose in ph0 and the values of record r
OnlyTarget(ph0, ph, o, r) ==
    /\ [ph EXCEPT !.cache = ph0.cache] = ph0
    /\ DOMAIN ph.cache = DOMAIN ph0.cache \cup {o}
    /\ \A q \in DOMAIN ph0.cache \ {o} : ph.cache[q] = ph0.cache[q]
    /\ ph.cache[o].curStep = 0
    /\ ph.cache[o].P0 = ph0.body[o].x
    /\ ph.cache[o].P3 = r.x
    /\ ph.cache[o].targetVel = r.vx
    /\ ph.cache[o].targetAngle = r.angle
    /\ ph.cache[o].targetAngV = r.vAngular

\* C29: processing a PhysSync of another peer changes only the
\* interpolation cache: each record of a registered body gives exactly one
\* target (step 0, source the current pose of the body, target the values
\* of the record), replacing an earlier one; position, velocities, angle
\* and shared flag of every body, the registry, the ledger and the outbound
\* events stay as they are, whether or not the body already had a target.
C29_SyncOnlyCache ==
    \A p \in players : \A o \in Bodies(p) : \A v \in 0..MaxAngle :
        OnlyTarget(phys[p],
                   processPhysSyncEvent(phys[p], OneRecord(phys[p].objToId[o], v), "remote"),
                   o, Record(phys[p].objToId[o], v))

\* the same for the bodies that have no target when the event is processed
C29_FirstTarget ==
    \A p \in players : \A o \in Bodies(p) \ DOMAIN phys[p].cache : \A v \in 0..MaxAngle :
        OnlyTarget(phys[p],
                   processPhysSyncEvent(phys[p], OneRecord(phys[p].objToId[o], v), "remote"),
                   o, Record(phys[p].objToId[o], v))


(***************************************************************************)
(* Property deltas.                                                        *)
(***************************************************************************)
\* the values of the property groups that the deltas below carry
BodyTypes == 0..2
F01 == 0..1
AllBoolConsts ==
    {BoolConsts(en, aw, sl, fr, bu, se) :
        en \in BOOLEAN, aw \in BOOLEAN, sl \in BOOLEAN,
        fr \in BOOLEAN, bu \in BOOLEAN, se \in BOOLEAN}
AllFloatConsts ==
    {FloatConsts(de, fr, re, ld, ad, gs, ma, ine, ce) :
        de \in F01, fr \in F01, re \in F01, ld \in F01, ad \in F01,
        gs \in F01, ma \in F01, ine \in F01, ce \in F01}

\* body o of peer p after the peer has processed delta e of another peer
After(p, o, e) == processPhysObjEvent(phys[p], e, "remote").body[o]

\* the deltas of the groups other than the float constants set their group
\* to the value of the event
GroupsApplied(p, o) ==
    LET id == phys[p].objToId[o] IN
    /\ \A v \in BodyTypes : After(p, o, allocBodyType(id, v)).bodyType = v
    /\ \A v \in 0..MaxAngle :
          /\ After(p, o, allocPos(id, v)).x = v
          /\ After(p, o, allocVel(id, v)).vx = v
          /\ After(p, o, allocAngle(id, v)).angle = v
          /\ After(p, o, allocAngularVel(id, v)).angV = v
    /\ \A v \in AllBoolConsts : After(p, o, allocBoolConsts(id, v)).bools = v

\* C30: after a peer has processed a remote property delta for a
\* registered body, every field of the group equals the value of the
\* event: body type, position, linear velocity, angle, angular velocity,
\* the six boolean constants, and the float constants density, friction,
\* restitution, linear damping, angular damping, gravity scale, mass,
\* inertia and centroid.
C30_DeltaApplied ==
    \A p \in players : \A o \in Bodies(p) :
        /\ GroupsApplied(p, o)
        /\ \A v \in AllFloatConsts :
              After(p, o, allocFloatConsts(phys[p].objToId[o], v)).floats = v

\* the same with the angular damping left out of the float constants
C30_ButAngularDamping ==
    \A p \in players : \A o \in Bodies(p) :
        /\ GroupsApplied(p, o)
        /\ \A v \in AllFloatConsts :
              LET f == After(p, o, allocFloatConsts(phys[p].objToId[o], v)).floats
              IN /\ [f EXCEPT !.angularDamping = v.angularDamping] = v
                 /\ f.angularDamping = phys[p].body[o].floats.angularDamping


(***************************************************************************)
(* The wire format: two peers in a game with the physics classes and one   *)
(* class of the application attached, whose applications count ticks and   *)
(* exchange events.                                                        *)
(***************************************************************************)
CodecInit ==
    \E lobby \in {{HostPeer, CHOOSE c \in Clients : \A d \in Clients : c <= d}} :
        /\ ctl = [p \in Peers |->
                    IF p \in lobby
                    THEN enablePhysics([c |-> Playing(p, Cardinality(lobby)),
                                        ph |-> NewPhysicsController]).c
                    ELSE init(NewController)]
        /\ phys = [p \in Peers |->
                    IF p \in lobby
                    THEN enablePhysics([c |-> Playing(p, Cardinality(lobby)),
                                        ph |-> NewPhysicsController]).ph
                    ELSE NewPhysicsController]
        /\ updateCount = [p \in Peers |-> p]
        /\ netState = [p \in Peers |-> IF p \in lobby THEN "INSESSION"
                                         ELSE "NEGOTIATING"]
        /\ players = lobby
        /\ sessionStarted = TRUE
        /\ channel = [sd \in Links |-> <<>>]

\* one event is in each queue and on each link at most, beside the PhysSync
\* that the host sends with every update
CodecBounded ==
    (/\ \A p \in Peers : /\ Len(ctl[p].outEventQueue) <= MaxChan
                         /\ Len(ctl[p].inEventQueue) <= MaxChan
     /\ \A sd \in Links :
           Len(channel[sd]) <= IF sd[1] = HostPeer THEN MaxLoad ELSE MaxChan)'

CodecNext ==
    \/ \E p \in players : Tick(p)
    \/ \E p \in players \ {HostPeer} : PushOut(p, 0) /\ CodecBounded
    \/ \E p \in players : updateNetFromOne(p) /\ CodecBounded
    \/ \E p \in players : PopIn(p)

CodecSpec == CodecInit /\ [][CodecNext]_vars


\* the events of the round trip: ids, floats and durations of more than one
\* byte, negative floats, short UIDs up to the largest of one byte
CodecIds == {<<2, 1>>, <<300, 70000>>, <<InitUID, 0>>}
CodecFloats == {-1, 0, 300}
CodecBools ==
    {BoolConsts(v, v, v, v, v, v) : v \in BOOLEAN}
    \cup {BoolConsts(TRUE, FALSE, FALSE, FALSE, FALSE, FALSE),
          BoolConsts(FALSE, TRUE, FALSE, FALSE, FALSE, FALSE),
          BoolConsts(FALSE, FALSE, TRUE, FALSE, FALSE, FALSE),
          BoolConsts(FALSE, FALSE, FALSE, TRUE, FALSE, FALSE),
          BoolConsts(FALSE, FALSE, FALSE, FALSE, TRUE, FALSE),
          BoolConsts(FALSE, FALSE, FALSE, FALSE, FALSE, TRUE)}
CodecFloatConsts ==
    {FloatConsts(v, v, v, v, v, v, v, v, v) : v \in CodecFloats}
    \cup {FloatConsts(1, 2, 3, 4, 5, 6, 7, 8, 9),
          FloatConsts(-9, 8, -7, 6, -5, 4, -3, 2, 300)}
CodecRecords ==
    {[objId |-> id, x |-> v, vx |-> v + 1, angle |-> v + 2, vAngular |-> v - 3] :
        id \in CodecIds, v \in {0, 300}}
GameStateEvents ==
    {allocGameStart, allocReady}
    \cup {allocUIDAssign(u) : u \in {0, 1, 2, NumClients + 1, 127, 128, ByteRange - 1}}
PhysObjEvents ==
    UNION {
        {allocDeletion(id), allocOwnerRelease(id)}
        \cup {allocCreation(f, id, b) : f \in {1}, b \in {0, ByteRange - 1}}
        \cup {allocBodyType(id, t) : t \in BodyTypes}
        \cup UNION {{allocPos(id, v), allocVel(id, v), allocAngle(id, v),
                     allocAngularVel(id, v)} : v \in CodecFloats}
        \cup {allocBoolConsts(id, b) : b \in CodecBools}
        \cup {allocFloatConsts(id, f) : f \in CodecFloatConsts}
        \cup {allocOwnerAcquire(id, d) : d \in {0, MaxDuration, 70000}}
        : id \in CodecIds}
PhysSyncEvents ==
    {allocPhysSync}
    \cup {[allocPhysSync EXCEPT !.syncList = <<r>>] : r \in CodecRecords}
    \cup {[allocPhysSync EXCEPT !.syncList = <<r, q>>] :
             r \in CodecRecords, q \in {c \in CodecRecords : c.objId = <<2, 1>>}}
AppEvents == {allocApp(v) : v \in {0, 1, ByteRange - 1}}
\* what the memory behind a buffer may hold
JunkBytes == {0, ByteRange - 1}

\* receiver r gets from the datagram that sender s has wrapped around e the
\* event e, the game tick of s, its own game tick and the source
RoundTrip(s, r, e) ==
    \A junk \in JunkBytes :
        unwrapFrom(ctl[r], updateCount[r], wrap(ctl[s], updateCount[s], e),
                   SourceId(s, r), junk)
          = [ev |-> e,
             eventTimeStamp |-> getGameTick(ctl[s], updateCount[s]),
             receiveTimeStamp |-> getGameTick(ctl[r], updateCount[r]),
             sourceId |-> SourceId(s, r)]

AnyByte == {0, UID_ASSIGN, CLIENT_RDY, GAME_START, ByteRange - 1}

\* the event cannot be processed: a creation without parameter bytes (the
\* null vector of a new event is dereferenced) or of a factory that has
\* not been attached
Unprocessable(cp, m) ==
    /\ m.ev.class = "PhysObjEvent"
    /\ cp.c.status = "INGAME" /\ cp.c.physEnabled /\ m.sourceId # ""
    /\ m.ev.type = "OBJ_CREATION"
    /\ m.ev.packedParam = <<>> \/ m.ev.obstacleFactId \notin 0..(cp.ph.obstacleFacts - 1)

\* processReceivedData for one datagram from source: what may become of
\* the controller, and whether the program goes on.  Below MIN_MSG_LENGTH
\* or with a tag that is not registered the assertion of unwrap fails and,
\* without the assertion, the event vector and the buffer are read outside
\* their bounds; longer datagrams are unwrapped, reading junk behind the
\* buffer where a word is cut.
receiveOutcomes(cp, tick, data, source) ==
    IF \/ Len(data) < MIN_MSG_LENGTH
       \/ TagOf(data) \notin 0..(Len(cp.c.newEventVector) - 1)
    THEN {[cp |-> cp, alive |-> a] : a \in BOOLEAN}
    ELSE {LET m == unwrapFrom(cp.c, tick, data, source, junk)
          IN IF Unprocessable(cp, m) THEN [cp |-> cp, alive |-> FALSE]
             ELSE [cp |-> processReceivedEvent(cp, tick, m), alive |-> TRUE]
          : junk \in AnyByte}

\* the tag of a class at a controller, and a header with this tag
TagFor(c, class) == getType(c, [class |-> class])
Header(c, class) == <<TagFor(c, class)>> \o writeUint64(0, 0)

\* datagrams shorter than MIN_MSG_LENGTH or with a tag that is not registered
BadEnvelopes(c) ==
    {<<>>, <<0>>, SubSeq(Header(c, "GameStateEvent"), 1, MIN_MSG_LENGTH - 1),
     <<Len(c.newEventVector)>> \o writeUint64(0, 0),
     <<ByteRange - 1>> \o writeUint64(0, 0) \o <<GAME_START>>}
\* a GameState frame of 9 bytes and a UID_ASSIGN without its UID
ShortGameStates(c) ==
    {Header(c, "GameStateEvent"), Header(c, "GameStateEvent") \o <<UID_ASSIGN>>}
\* PhysObj payloads of less than 12 bytes, and a position without its floats
ShortPhysObjs(c, ids) ==
    {Header(c, "PhysObjEvent"),
     Header(c, "PhysObjEvent") \o writeUint32(TypeNo("OBJ_DELETION"))}
    \cup {Header(c, "PhysObjEvent")
             \o SubSeq(PhysObjSerialize(allocPos(id, 1)), 1, 12) : id \in ids}
\* PhysSync payloads whose count is one more than the records present
ShortPhysSyncs(c, ids) ==
    {Header(c, "PhysSyncEvent") \o writeUint64(0, 1)}
    \cup {Header(c, "PhysSyncEvent") \o writeUint64(0, 2)
             \o PhysSyncRecords(<<Record(id, 1)>>, 1) : id \in ids}

\* every outcome of receiving one of the datagrams leaves the controller
\* of peer r as it is, with the program running
Dropped(r, datagrams) ==
    \A s \in players \ {r} : \A data \in datagrams :
        \A o \in receiveOutcomes([c |-> ctl[r], ph |-> phys[r]], updateCount[r],
                                 data, SourceId(s, r)) :
            o.alive /\ o.cp = [c |-> ctl[r], ph |-> phys[r]]

\* C22: a received datagram that is shorter than 9 bytes, whose tag is not
\* below the number of registered classes, or whose payload is shorter
\* than the layout of its event (a GameState frame of 9 bytes, a PhysObj
\* payload under 12 bytes, a PhysSync whose count exceeds the records
\* present) is dropped: status, queues, registry, ledger, interpolation
\* cache and bodies are unchanged, nothing outside the buffer is read and
\* the program goes on with the later datagrams.
C22_MalformedDropped ==
    \A r \in players :
        /\ Dropped(r, BadEnvelopes(ctl[r]))
        /\ Dropped(r, ShortGameStates(ctl[r]))
        /\ ctl[r].physEnabled =>
              /\ Dropped(r, ShortPhysObjs(ctl[r], DOMAIN phys[r].idToObj))
              /\ Dropped(r, ShortPhysSyncs(ctl[r], DOMAIN phys[r].idToObj))

\* the same for one kind of datagram each
C22_Envelope == \A r \in players : Dropped(r, BadEnvelopes(ctl[r]))
C22_GameState == \A r \in players : Dropped(r, ShortGameStates(ctl[r]))
C22_PhysObj ==
    \A r \in players :
        ctl[r].physEnabled => Dropped(r, ShortPhysObjs(ctl[r], DOMAIN phys[r].idToObj))
C22_PhysSync ==
    \A r \in players :
        ctl[r].physEnabled => Dropped(r, ShortPhysSyncs(ctl[r], DOMAIN phys[r].idToObj))


(***************************************************************************)
(* Publishing of local changes: the application of the host sets the       *)
(* property groups of its bodies, the peers update.                        *)
(***************************************************************************)
\* Obstacle::setAngularDamping
setAngularDamping(b, v) ==
    [b EXCEPT !.floats.angularDamping = v,
              !.dirty = IF b.shared THEN @ \cup {"float"} ELSE @]

Groups == {"pos", "angle", "vel", "angV", "type", "bool", "float"}

\* the body after the application has set group g to v
setGroup(b, g, v) ==
    CASE g = "pos" -> setPosition(b, v)
      [] g = "angle" -> setAngle(b, v)
      [] g = "vel" -> setLinearVelocity(b, v)
      [] g = "angV" -> setAngularVelocity(b, v)
      [] g = "type" -> setBodyType(b, v)
      [] g = "bool" -> [b EXCEPT !.bools.isBullet = (v = 1),
                                 !.dirty = IF b.shared THEN @ \cup {"bool"} ELSE @]
      [] g = "float" -> setAngularDamping(b, v)

\* the application of peer p sets a property group of a body of the world
SetGroup(p, obs, g, v) ==
    /\ obs \in InWorld(p)
    /\ setGroup(phys[p].body[obs], g, v) # phys[p].body[obs]
    /\ phys' = [phys EXCEPT ![p].body[obs] = setGroup(@, g, v)]
    /\ UNCHANGED <<ctl, updateCount, netState, players, sessionStarted, channel>>

\* the host alone in a game, with one shared body and one body that the
\* application has added without sharing it
PackInit ==
    /\ ctl = [p \in Peers |-> IF p = HostPeer
                                THEN [HostWithBody(1).c EXCEPT !.outEventQueue = <<>>]
                                ELSE init(NewController)]
    /\ phys = [p \in Peers |-> IF p = HostPeer
                                 THEN WithInitObstacles(HostWithBody(1).ph, 1)
                                 ELSE NewPhysicsController]
    /\ updateCount = [p \in Peers |-> 0]
    /\ netState = [p \in Peers |-> IF p = HostPeer THEN "INSESSION" ELSE "NEGOTIATING"]
    /\ players = {HostPeer}
    /\ sessionStarted = TRUE
    /\ channel = [sd \in Links |-> <<>>]

\* the groups of body b that the application has set to a value of its own
SetGroups(b) == {g \in Groups : [setGroup(b, g, 0) EXCEPT !.dirty = b.dirty] # b}

\* no body has more than MaxDirty groups to publish, and the application
\* has set MaxSet groups at most
FewDirty ==
    (/\ \A p \in Peers : \A o \in Handles(p) :
            Cardinality(phys[p].body[o].dirty) <= MaxDirty
     /\ \A p \in Peers :
            Cardinality({og \in Handles(p) \X Groups :
                            og[2] \in SetGroups(phys[p].body[og[1]])}) <= MaxSet)'

\* a link holds the PhysSync and the deltas of one update at most
PackBounded == (\A sd \in Links : Len(channel[sd]) <= MaxDirty + 1)'

PackNext ==
    \/ \E obs \in Handles(HostPeer), g \in Groups, v \in 1..MaxAngle :
          SetGroup(HostPeer, obs, g, v) /\ FewDirty
    \/ \E p \in players : updateNetFromOne(p) /\ PackBounded

PackSpec == PackInit /\ [][PackNext]_vars


\* the type of the delta of a property group, and the value of the group
\* that a body has
DeltaType(g) ==
    CASE g = "pos" -> "OBJ_POSITION" [] g = "angle" -> "OBJ_ANGLE"
      [] g = "vel" -> "OBJ_VELOCITY" [] g = "angV" -> "OBJ_ANGULAR_VEL"
      [] g = "type" -> "OBJ_BODY_TYPE" [] g = "bool" -> "OBJ_BOOL_CONSTS"
      [] g = "float" -> "OBJ_FLOAT_CONSTS"
GroupValue(b, g) ==
    CASE g = "pos" -> b.x [] g = "angle" -> b.angle [] g = "vel" -> b.vx
      [] g = "angV" -> b.angV [] g = "type" -> b.bodyType [] g = "bool" -> b.bools
      [] g = "float" -> b.floats

\* C31: packPhysObj appends exactly one PhysObj delta for each pair of a
\* shared body and a dirty property group, carrying the body's current
\* value of the group, then clears all dirty bits of every shared body,
\* and appends nothing for bodies that are not shared; a second packPhysObj
\* without a local change in between appends nothing.
C31_PackPhysObj ==
    \A p \in players :
        LET ph   == phys[p]
            r    == packPhysObj(ph)
            n    == Len(ph.outEvents)
            new  == SubSeq(r.outEvents, n + 1, Len(r.outEvents))
            pub  == {o \in InWorld(p) : ph.body[o].shared}
            due  == {og \in pub \X Groups : og[2] \in ph.body[og[1]].dirty}
        IN /\ SubSeq(r.outEvents, 1, n) = ph.outEvents
           /\ Len(new) = Cardinality(due)
           /\ \A og \in due :
                 \E i \in 1..Len(new) :
                    /\ new[i].type = DeltaType(og[2])
                    /\ new[i].objId = ph.objToId[og[1]]
                    /\ new[i].value = GroupValue(ph.body[og[1]], og[2])
           /\ \A o \in pub : r.body[o] = [ph.body[o] EXCEPT !.dirty = {}]
           /\ \A o \in DOMAIN ph.body \ pub : r.body[o] = ph.body[o]
           /\ [r EXCEPT !.outEvents = ph.outEvents, !.body = ph.body] = ph
           /\ packPhysObj(r) = r

\* the shared body of the host has its float constants and one more group
\* to publish, and the world holds a body that is not shared
C31_Witness ==
    \E o, u \in InWorld(HostPeer) :
        /\ phys[HostPeer].body[o].shared
        /\ "float" \in phys[HostPeer].body[o].dirty
        /\ Cardinality(phys[HostPeer].body[o].dirty) = MaxDirty
        /\ ~phys[HostPeer].body[u].shared


\* clamp(max(floor(30 d), floor(a)), 1, 30) for the distance d and the
\* angular difference a = 10 |angle difference| of body b and record r
StepCount(b, r) ==
    LET d == IF b.x >= r.x THEN b.x - r.x ELSE r.x - b.x
        a == 10 * (IF b.angle >= r.angle THEN b.angle - r.angle ELSE r.angle - b.angle)
        m == IF 30 * d >= a THEN 30 * d ELSE a
    IN IF m < 1 THEN 1 ELSE IF m > 30 THEN 30 ELSE m

RECURSIVE collectIdsOnly(_, _, _)
collectIdsOnly(ph, marked, i) ==
    IF i > Len(ph.objects) THEN ph
    ELSE LET o == ph.objects[i]
         IN IF o \in marked
            THEN collectIdsOnly(
                     [ph EXCEPT !.idToObj = IF o \in DOMAIN ph.objToId
                                            THEN MapErase(@, ph.objToId[o]) ELSE @],
                     marked, i + 1)
            ELSE collectIdsOnly(ph, marked, i + 1)
garbageCollectIdsOnly(ph, marked) ==
    [collectIdsOnly(ph, marked, 1) EXCEPT
        !.objects = SelectSeq(@, LAMBDA o : o \notin marked)]

\* ObstacleWorld::garbageCollect; marked are the bodies with isRemoved()
RECURSIVE collect(_, _, _)
collect(ph, marked, i) ==
    IF i > Len(ph.objects) THEN ph
    ELSE LET o == ph.objects[i]
         IN IF o \in marked
            THEN collect(
                     [ph EXCEPT !.idToObj = IF o \in DOMAIN ph.objToId
                                            THEN MapErase(@, ph.objToId[o]) ELSE @,
                                !.objToId = MapErase(@, o)],
                     marked, i + 1)
            ELSE collect(ph, marked, i + 1)
garbageCollect(ph, marked) ==
    [collect(ph, marked, 1) EXCEPT
        !.objects = SelectSeq(@, LAMBDA o : o \notin marked)]

\* ObstacleWorld::clear; the counter of the ids is not reset
clear(ph) ==
    [ph EXCEPT !.idToObj = EmptyMap, !.objToId = EmptyMap, !.owned = EmptyMap,
               !.objects = <<>>]

\* the application of peer p marks the bodies of marked for removal and
\* calls garbageCollect
GarbageCollect(p, marked) ==
    /\ marked \cap InWorld(p) # {}
    /\ phys' = [phys EXCEPT ![p] = garbageCollect(@, marked)]
    /\ UNCHANGED <<ctl, updateCount, netState, players, sessionStarted, channel>>

\* the application of peer p calls clear on its world
Clear(p) ==
    /\ phys[p].objects # <<>>
    /\ phys' = [phys EXCEPT ![p] = clear(@)]
    /\ UNCHANGED <<ctl, updateCount, netState, players, sessionStarted, channel>>

\* the ids that the worlds of the players have handed out
RECURSIVE SeqSum(_)
SeqSum(S) == IF S = {} THEN 0
             ELSE LET p == CHOOSE q \in S : TRUE
                  IN phys[p].nextObj + SeqSum(S \ {p})

WorldNext ==
    \/ \E p \in players : IssueBody(p) /\ SeqSum(players) < MaxSeq /\ HostBounded
    \/ \E p \in players : \E obs \in Handles(p) : RemoveSharedObstacle(p, obs) /\ HostBounded
    \/ \E p \in players : \E marked \in SUBSET Handles(p) : GarbageCollect(p, marked)
    \/ \E p \in players : Clear(p)
    \/ \E p \in players : updateNetFromOne(p) /\ HostBounded

WorldInit == IdInit /\ \A p \in players : phys[p].nextObj = 1

WorldSpec == WorldInit /\ [][WorldNext]_vars

\* C33: after any sequence of local creations, remote creations, deletions,
\* garbage collection and clear, the id-to-body map and the body-to-id map
\* of a world are inverses of each other.
C33_Inverse ==
    \A p \in Peers :
        /\ \A id \in DOMAIN phys[p].idToObj :
              /\ phys[p].idToObj[id] \in DOMAIN phys[p].objToId
              /\ phys[p].objToId[phys[p].idToObj[id]] = id
        /\ \A o \in DOMAIN phys[p].objToId :
              /\ phys[p].objToId[o] \in DOMAIN phys[p].idToObj
              /\ phys[p].idToObj[phys[p].objToId[o]] = o

\* a world that has lost an id it issued still holds the id of a body that
\* another peer created and that was deleted from the object list
C33_Witness ==
    \E p \in players :
        /\ \E k \in 0..(phys[p].nextObj - 1) :
              /\ <<phys[p].shortUID, k>> \notin DOMAIN phys[p].idToObj
              /\ <<InitUID, k>> \notin DOMAIN phys[p].idToObj
        /\ \E h \in Bodies(p) : /\ phys[p].objToId[h][1] \notin {phys[p].shortUID, InitUID}
                                /\ h \notin InWorld(p)



(***************************************************************************)
(* PrioSpec: the host and a client are INGAME, each world holds one        *)
(* obstacle of the level; the peers create and remove shared bodies, call  *)
(* packPhysSync(PRIO_SYNC) and keep calling updateNet.                     *)
(***************************************************************************)
\* the application of peer p calls packPhysSync(PRIO_SYNC); with an empty
\* object list the call divides by zero and ends the program
PackPrioSync(p, junk) ==
    /\ phys[p].objects # <<>>
    /\ phys' = [phys EXCEPT ![p] = packPhysSyncPrio(@, junk)]
    /\ UNCHANGED <<ctl, updateCount, netState, players, sessionStarted, channel>>

PrioNext ==
    \/ \E p \in players : IssueBody(p) /\ SeqSum(players) < MaxSeq /\ HostBounded
    \/ \E p \in players : \E obs \in Handles(p) : RemoveSharedObstacle(p, obs) /\ HostBounded
    \/ \E p \in players : \E junk \in Handles(p) : PackPrioSync(p, junk) /\ HostBounded
    \/ \E p \in players : updateNetFromOne(p) /\ HostBounded

PrioSpec == WorldInit /\ [][PrioNext]_vars

\* the ids of the registered shared bodies of a controller
SharedIds(ph) == {id \in DOMAIN ph.idToObj : ph.body[ph.idToObj[id]].shared}

\* C34: packPhysSync(PRIO_SYNC) on a controller with at least one registered
\* shared body, also after deletions, appends one PhysSync that holds the up
\* to 60 shared bodies of highest linear speed and a rolling window of up to
\* 20 further bodies whose start advances by one per call and wraps around:
\* at most 80 records, only of registered shared bodies, none twice.
C34_PrioSync ==
    \A p \in players : \A junk \in Handles(p) :
        (SharedIds(phys[p]) # {} /\ phys[p].objects # <<>>) =>
            LET ph   == phys[p]
                r    == packPhysSyncPrio(ph, junk)
                n    == Len(ph.outEvents)
                list == r.outEvents[n + 1].syncList
            IN /\ Len(r.outEvents) = n + 1
               /\ SubSeq(r.outEvents, 1, n) = ph.outEvents
               /\ r.outEvents[n + 1].class = "PhysSyncEvent"
               /\ Len(list) <= PrioCount + WindowCount
               /\ \A i \in 1..Len(list) : list[i].objId \in SharedIds(ph)
               /\ \A i, j \in 1..Len(list) : list[i].objId = list[j].objId => i = j
               /\ Cardinality(SharedIds(ph)) <= PrioCount =>
                     SharedIds(ph) \subseteq {list[i].objId : i \in 1..Len(list)}
               /\ r.objRotation = (ph.objRotation + 1) % Len(ph.objects)


(***************************************************************************)
(* StampSpec: the host and a client whose session has begun have attached  *)
(* one event class of their own.  They go through the handshake and the    *)
(* game start, push events of their class and keep calling updateNet.  The *)
(* application of peer p had finished p updates when the session began.    *)
(***************************************************************************)
StampInit ==
    \E lobby \in {{HostPeer, CHOOSE c \in Clients : \A d \in Clients : c <= d}} :
        /\ ctl = [p \in Peers |-> IF p \in lobby
                                    THEN attachEventType(Connected(p), "AppEvent")
                                    ELSE init(NewController)]
        /\ phys = [p \in Peers |-> NewPhysicsController]
        /\ updateCount = [p \in Peers |-> p]
        /\ netState = [p \in Peers |-> IF p \in lobby THEN "INSESSION"
                                         ELSE "NEGOTIATING"]
        /\ players = lobby
        /\ sessionStarted = TRUE
        /\ channel = [sd \in Links |-> <<>>]

\* one datagram on a link and one event in an outbound queue at most
StampBounded ==
    (/\ Within(MaxLoad)
     /\ \A sd \in Links : Len(channel[sd]) <= MaxChan
     /\ \A p \in Peers : Len(ctl[p].outEventQueue) <= MaxChan)'

StampNext ==
    \/ \E p \in players : MarkReadyWithUID(p) /\ StampBounded
    \/ \E p \in players : PushOut(p, 0) /\ StampBounded
    \/ \E p \in players : updateNet(p) /\ StampBounded

StampSpec == StampInit /\ [][StampNext]_vars

\* the inbound events of a peer that came from one sender carry sender ticks
\* that do not decrease in the order in which they were accepted
AcceptedInOrder ==
    \A p \in players : \A i, j \in 1..Len(ctl[p].inEventQueue) :
        (i < j /\ ctl[p].inEventQueue[i].sourceId = ctl[p].inEventQueue[j].sourceId)
            => ctl[p].inEventQueue[i].eventTimeStamp <= ctl[p].inEventQueue[j].eventTimeStamp

\* the tick that wrap stamps on the next datagram of a peer does not decrease
StampGrows ==
    \A p \in players :
        getGameTick(ctl'[p], updateCount'[p]) >= getGameTick(ctl[p], updateCount[p])

\* C35: per sender, the ticks that wrap stamps (update count minus tick of
\* the game start) never decrease across the handshake and the game start,
\* and a receiver does not accept an event with a lower tick than one it has
\* already accepted from the same sender.
C35_TicksMonotone == [](AcceptedInOrder) /\ [][StampGrows]_vars


\* the event that peer p unwraps from the datagram in which peer s wraps e
ReceivedFrom(p, s, e) ==
    unwrap(ctl[p], updateCount[p], wrap(ctl[s], updateCount[s], e), SourceId(s, p))

\* the inbound queue of peer p after processReceivedEvent of event e of peer s
QueueAfter(p, s, e) ==
    processReceivedEvent([c |-> ctl[p], ph |-> phys[p]], updateCount[p],
                         ReceivedFrom(p, s, e)).c.inEventQueue

\* an updateNet leaves the events of the inbound queue where they are
QueueKept ==
    \A p \in players :
        \/ ctl'[p].inEventQueue = Tail(ctl[p].inEventQueue) /\ ctl[p].inEventQueue # <<>>
        \/ /\ Len(ctl'[p].inEventQueue) >= Len(ctl[p].inEventQueue)
           /\ SubSeq(ctl'[p].inEventQueue, 1, Len(ctl[p].inEventQueue)) = ctl[p].inEventQueue

\* C36: every received event of a class that the application has attached is
\* appended to the inbound queue whatever the session status and stays there
\* across updateNet calls until popInEvent; a built-in event is never placed
\* in the inbound queue.
C36_AppEventsQueued ==
    /\ [](\A p, s \in players :
            /\ QueueAfter(p, s, allocApp(0))
                   = Append(ctl[p].inEventQueue, ReceivedFrom(p, s, allocApp(0)))
            /\ \A e \in {allocReady, allocGameStart, allocUIDAssign(1)} :
                   QueueAfter(p, s, e) = ctl[p].inEventQueue)
    /\ [][QueueKept]_vars


\* C37: every read of the LWDeserializer that would extend beyond the end of
\* the buffer, whether it starts at or past the end or inside the buffer
\* with too few bytes left, returns zero or false and reads no byte outside
\* the buffer.
C37_ReadsInside ==
    \A sd \in Links : \A i \in 1..Len(channel[sd]) : \A n \in 0..Len(channel[sd][i]) :
        LET data == SubSeq(channel[sd][i], 1, n)
        IN \A pos \in 0..(n + 1) : \A junk \in JunkBytes :
              /\ pos + 1 > n => readBool(data, pos) = FALSE
              /\ pos + 4 > n => /\ readUint32(data, pos, junk) = 0
                                /\ readFloat(data, pos, junk) = 0
              /\ pos + 8 > n => readUint64(data, pos, junk) = <<0, 0>>


\* the snapshots that are on their way from another peer to peer p
SyncsFor(p) ==
    UNION {{deserialize("PhysSyncEvent", PayloadOf(channel[<<s, p>>][i])) :
              i \in {k \in 1..Len(channel[<<s, p>>]) :
                       ctl[p].newEventVector[TagOf(channel[<<s, p>>][k]) + 1]
                           = "PhysSyncEvent"}}
           : s \in players \ {p}}

\* C38: a peer that holds a body in its ownership ledger never has the state
\* of that body overwritten by remote data: no PhysSync record of another
\* peer gives a target to, or changes pose or velocity of, a body that the
\* receiver owns, for any interleaving of acquisitions and snapshots.
C38_OwnerNotOverwritten ==
    \A p \in players : \A ev \in SyncsFor(p) : \A i \in 1..Len(ev.syncList) :
        LET id == ev.syncList[i].objId
        IN (/\ ctl[p].status = "INGAME" /\ ctl[p].physEnabled
            /\ id \in DOMAIN phys[p].idToObj
            /\ phys[p].idToObj[id] \in DOMAIN phys[p].owned) =>
               LET obj == phys[p].idToObj[id]
                   r   == processPhysSyncEvent(phys[p], ev, "remote")
               IN /\ obj \in DOMAIN r.cache <=> obj \in DOMAIN phys[p].cache
                  /\ obj \in DOMAIN r.cache => r.cache[obj] = phys[p].cache[obj]
                  /\ r.body[obj] = phys[p].body[obj]


\* C39: whenever physics is enabled the controller holds a physics
\* controller object, and so does every connected controller that has its
\* short UID, in a first session or after disconnect, a new connection and
\* the handshake: enablePhysics and the replication of updateNet never
\* dereference a missing physics controller.
C39_PhysControllerHeld ==
    \A p \in players :
        /\ ctl[p].physEnabled => ctl[p].physController
        /\ (/\ ctl[p].network
            /\ ctl[p].status \in {"HANDSHAKE", "READY", "INGAME"}
            /\ ctl[p].shortUID # 0) => ctl[p].physController


\* a controller that is READY or INGAME holds a short UID, and a UID_ASSIGN
\* that a controller processes outside HANDSHAKE leaves its short UID alone
UIDHeld ==
    \A p \in players :
        /\ ctl[p].status \in {"READY", "INGAME"} => ctl[p].shortUID # 0
        /\ ctl[p].status # "HANDSHAKE" =>
              \A u \in 0..(NumClients + 1) :
                  processGameStateEvent(ctl[p], updateCount[p],
                                        allocUIDAssign(u)).shortUID = ctl[p].shortUID

\* no step of a controller that is READY or INGAME changes its short UID
\* unless the step is a disconnect
UIDKept ==
    \A p \in players :
        (ctl[p].status \in {"READY", "INGAME"} /\ ctl'[p].network)
            => ctl'[p].shortUID = ctl[p].shortUID

====
